---- MODULE Spec2Model ----
(***************************************************************************)
(* Registry management subsystem of tequila: the WineRegistry store        *)
(* (src/prefix/regeditor/registry.rs), the RegistryEditor facade           *)
(* (src/prefix/regeditor/editor.rs) and the InMemoryRegistryCache          *)
(* (src/prefix/regeditor/cache.rs).                                        *)
(*                                                                         *)
(* Key paths and value names are strings; starts_with, contains, format!   *)
(* and the "(default)" rendering are computed on them with Len, SubSeq     *)
(* and \o, not tabulated.                                                  *)
(***************************************************************************)
EXTENDS Integers, Sequences, FiniteSets, TLC

VARIABLES
    reg,        \* SpecStore: the Registry behind the WineRegistry handle
    last,       \* SpecStore: the last store call, its arguments and result
    files,      \* SpecPrefix: system.reg, user.reg, userdef.reg of the prefix directory
    loaded,     \* SpecPrefix: the Result of the last load_from_prefix
    cache,      \* InMemoryRegistryCache.cache: prefix path -> CacheEntry
    default_ttl,\* InMemoryRegistryCache.default_ttl
    now,        \* the monotonic clock read by Instant::now()
    sweeps,     \* sweep tasks spawned by cleanup_expired that have not run yet
    lastGet,    \* the last get_cached_registry call and its result
    lastStats,  \* the last CacheStats returned by stats()
    hist,       \* per path, the last call that stored or removed its entry
    editor,     \* RegistryEditor: its registry handle and prefix_path
    disk,       \* per prefix path, the user.reg file
    saveTask,   \* the position of a save_registry call in progress
    lastSave,   \* the last save_registry call that returned, and its Result
    shared,     \* SpecConc: the Registry inside the Arc<RwLock<_>> of one handle
    lockWriter, \* the task holding the RwLock exclusively, or "none"
    lockReaders,\* the tasks holding the RwLock shared
    tasks,      \* per task: the call it makes on its clone and how far it got
    edCall,     \* SpecEditor, SpecSettings: the last call on the editor, its argument and Result
    heap,       \* SpecShare: the Registry inside each Arc<RwLock<_>> ever allocated
    editors     \* SpecShare: per editor, how far its with_prefix got and its handle

vars ==
    <<reg, last, files, loaded, cache, default_ttl, now, sweeps, lastGet, lastStats, hist,
      editor, disk, saveTask, lastSave, shared, lockWriter, lockReaders, tasks, edCall,
      heap, editors>>

----------------------------------------------------------------------------
(* Value model: regashii::Value, ValueName, Key, Registry as the store     *)
(* uses them.  Values keep one record shape so that any two compare.       *)

Sz(str) ==
    [type |-> "Sz", s |-> str, d |-> 0]
ExpandSz(str) ==
    [type |-> "ExpandSz", s |-> str, d |-> 0]
Dword(n) ==
    [type |-> "Dword", s |-> "", d |-> n]
DeleteValue ==
    [type |-> "Delete", s |-> "", d |-> 0]
NoValue ==
    [type |-> "None", s |-> "", d |-> 0]

Some(v) ==
    [some |-> TRUE, v |-> v]
None ==
    [some |-> FALSE]

ValueNameDefault ==
    [tag |-> "Default", name |-> ""]
ValueNameNamed(n) ==
    [tag |-> "Named", name |-> n]

EmptyMap ==
    [x \in {} |-> x]
MapPut(m, k, v) ==
    [x \in (DOMAIN m) \cup {k} |-> IF x = k THEN v ELSE m[x]]

\* Registry::new(Format::Regedit5): no keys
RegistryNew ==
    EmptyMap
\* Key::new(): an "add" key without values
KeyNew ==
    [kind |-> "Add", values |-> EmptyMap]
\* Key::deleted(): the tombstone of a whole key
KeyDeleted ==
    [kind |-> "Delete", values |-> EmptyMap]
\* Key::with(name, value)
KeyWith(key, vn, v) ==
    [key EXCEPT !.values = MapPut(@, vn, v)]
\* Registry::with(name, key): BTreeMap insert, the key stored under name is
\* replaced as a whole
RegistryWith(r, key_path, key) ==
    MapPut(r, key_path, key)

\* the conversion of a value-name string done by set_value and delete_value
ToValueName(value_name) ==
    IF value_name = "(default)" THEN ValueNameDefault ELSE ValueNameNamed(value_name)
\* the rendering of a ValueName done by get_value and get_key_values
ValNameStr(vn) ==
    IF vn.tag = "Default" THEN "(default)" ELSE vn.name

\* the first value name of a set in the BTreeMap's order (Default sorts
\* before every Named; Named names of one rendering are equal)
FirstValueName(vns) ==
    IF ValueNameDefault \in vns THEN ValueNameDefault ELSE CHOOSE vn \in vns : TRUE

----------------------------------------------------------------------------
(* WineRegistry: the bodies of the store operations, as functions of the   *)
(* Registry they run on under the lock.                                    *)

get_value(r, key_path, value_name) ==
    IF key_path \in DOMAIN r
    THEN LET key == r[key_path]
             hits == {vn \in DOMAIN key.values : ValNameStr(vn) = value_name}
         IN  IF hits = {} THEN None ELSE Some(key.values[FirstValueName(hits)])
    ELSE None

set_value(r, key_path, value_name, value) ==
    RegistryWith(r, key_path, KeyWith(KeyNew, ToValueName(value_name), value))

delete_value(r, key_path, value_name) ==
    RegistryWith(r, key_path, KeyWith(KeyNew, ToValueName(value_name), DeleteValue))

delete_key(r, key_path) ==
    RegistryWith(r, key_path, KeyDeleted)

key_exists(r, key_path) ==
    key_path \in DOMAIN r

\* HashMap<String, Value> of one key; of two value names with one rendering
\* the later insert (the Named one) stays
get_key_values(r, key_path) ==
    IF key_path \in DOMAIN r
    THEN LET key == r[key_path]
             strs == {ValNameStr(vn) : vn \in DOMAIN key.values}
         IN  [str \in strs |->
                 IF ValueNameNamed(str) \in DOMAIN key.values
                 THEN key.values[ValueNameNamed(str)]
                 ELSE key.values[ValueNameDefault]]
    ELSE EmptyMap

\* str.contains(pattern)
Contains(str, pattern) ==
    \E i \in 0..(Len(str) - Len(pattern)) :
        SubSeq(str, i + 1, i + Len(pattern)) = pattern

\* the key paths that contain the pattern
find_keys(r, pattern) ==
    {key_path \in DOMAIN r : Contains(key_path, pattern)}

----------------------------------------------------------------------------
(* Settings schema (keys.rs) and the validation of the editor              *)

StartsWith(str, prefix) ==
    Len(str) >= Len(prefix) /\ SubSeq(str, 1, Len(prefix)) = prefix

\* format!("{}\\{}", a, b)
PathJoin(a, b) ==
    a \o "\\" \o b

validate_key_path(key_path) ==
    IF key_path = "" THEN "ValidationError"
    ELSE IF ~StartsWith(key_path, "Software") THEN "ValidationError"
    ELSE "Ok"

validate_value_name(value_name) ==
    IF value_name = "" THEN "ValidationError"
    ELSE LET invalid_chars == {"\\", "/", ":", "*", "?", "\"", "<", ">", "|"}
         IN  IF \E i \in 1..Len(value_name) : SubSeq(value_name, i, i) \in invalid_chars
             THEN "ValidationError"
             ELSE "Ok"

Enum(tag, str) ==
    [tag |-> tag, str |-> str]

\* from_string of an enum given as its match arms: the variant, or "None"
EnumFromString(arms, str) ==
    IF \E e \in arms : e.str = str THEN (CHOOSE e \in arms : e.str = str).tag ELSE "None"
\* to_string of an enum given as its match arms
EnumToString(arms, tag) ==
    (CHOOSE e \in arms : e.tag = tag).str

\* each enum of keys.rs as the match arms of its to_string and from_string
WindowsVersion ==
    LET arms == { Enum("Win10", "win10"), Enum("Win81", "win81"), Enum("Win8", "win8"),
                  Enum("Win7", "win7"), Enum("Win2008", "win2008"), Enum("Vista", "vista"),
                  Enum("Win2003", "win2003"), Enum("WinXP", "winxp"), Enum("Win2K", "win2k"),
                  Enum("NT40", "nt40"), Enum("WinME", "winme"), Enum("Win98", "win98"),
                  Enum("Win95", "win95"), Enum("Win31", "win31") }
    IN  [to_string |-> arms, from_string |-> arms]

D3DRenderer ==
    LET arms == { Enum("GDI", "gdi"), Enum("OpenGL", "gl"), Enum("Vulkan", "vulkan") }
    IN  [to_string |-> arms, from_string |-> arms \cup { Enum("GDI", "no3d") }]

OffscreenRenderingMode ==
    LET arms == { Enum("Backbuffer", "backbuffer"), Enum("FBO", "fbo") }
    IN  [to_string |-> arms, from_string |-> arms]

DllOverrideSetting ==
    LET arms == { Enum("Native", "native"), Enum("Builtin", "builtin"),
                  Enum("NativeBuiltin", "native,builtin"),
                  Enum("BuiltinNative", "builtin,native"), Enum("Disabled", "") }
    IN  [to_string |-> arms, from_string |-> arms]

AudioDriver ==
    LET arms == { Enum("Pulse", "pulse"), Enum("ALSA", "alsa"), Enum("OSS", "oss"),
                  Enum("CoreAudio", "coreaudio"), Enum("Disabled", "") }
    IN  [to_string |-> arms, from_string |-> arms]

RECURSIVE DecChars(_)
\* the decimal rendering of a u32 by format!("{}")
DecChars(n) ==
    LET digit(d) == SubSeq("0123456789", d + 1, d + 1)
    IN  IF n < 10 THEN digit(n) ELSE DecChars(n \div 10) \o digit(n % 10)

DesktopSize_to_string(size) ==
    DecChars(size.width) \o "x" \o DecChars(size.height)

----------------------------------------------------------------------------
(* RegistryEditor setters: the Result and the registry left behind         *)

MaxVideoMemory == 16384
MinDpi == 96

Ok(r) ==
    [status |-> "Ok", reg |-> r]
ValidationError(r) ==
    [status |-> "ValidationError", reg |-> r]

\* one set_string_value / set_dword_value of a setter; checked: the setter
\* calls validate_value_name on the name right before it
Write(key_path, value_name, value, checked) ==
    [key |-> key_path, name |-> value_name, value |-> value, checked |-> checked]

RECURSIVE ApplyWrites(_, _)
\* the writes of a setter in program order; the first failing validation
\* returns with `?` and leaves what was written before it
ApplyWrites(r, writes) ==
    IF writes = <<>> THEN Ok(r)
    ELSE LET w == Head(writes)
         IN  IF w.checked /\ validate_value_name(w.name) /= "Ok"
             THEN ValidationError(r)
             ELSE ApplyWrites(set_value(r, w.key, w.name, w.value), Tail(writes))

set_windows_version_removesExisting(r, version) ==
    LET parsed_version == EnumFromString(WindowsVersion.from_string, version)
    IN  IF parsed_version = "None" THEN ValidationError(r)
        ELSE IF get_value(r, "Software\\Wine", "Version").some
             THEN Ok(delete_value(r, "Software\\Wine", "Version"))
             ELSE Ok(set_value(r, "Software\\Wine", "Version",
                               Sz(EnumToString(WindowsVersion.to_string, parsed_version))))

set_windows_version(r, version) ==
    IF validate_key_path("Software\\Wine") /= "Ok" THEN ValidationError(r)
    ELSE IF validate_value_name("Version") /= "Ok" THEN ValidationError(r)
    ELSE LET parsed_version == EnumFromString(WindowsVersion.from_string, version)
         IN  IF parsed_version /= "None"
             THEN Ok(set_value(r, "Software\\Wine", "Version",
                               Sz(EnumToString(WindowsVersion.to_string, parsed_version))))
             ELSE ValidationError(r)

set_audio_driver(r, driver) ==
    IF validate_key_path("Software\\Wine\\Drivers\\Audio") /= "Ok" THEN ValidationError(r)
    ELSE IF validate_value_name("") /= "Ok" THEN ValidationError(r)
    ELSE LET parsed_driver == EnumFromString(AudioDriver.from_string, driver)
         IN  IF parsed_driver /= "None"
             THEN Ok(set_value(r, "Software\\Wine\\Drivers\\Audio", "",
                               Sz(EnumToString(AudioDriver.to_string, parsed_driver))))
             ELSE ValidationError(r)

set_video_memory_size_noUpperBound(r, size_mb) ==
    IF size_mb = 0 THEN ValidationError(r)
    ELSE Ok(set_value(r, "Software\\Wine\\Direct3D", "VideoMemorySize", Dword(size_mb)))

set_video_memory_size(r, size_mb) ==
    IF validate_key_path("Software\\Wine\\Direct3D") /= "Ok" THEN ValidationError(r)
    ELSE IF validate_value_name("VideoMemorySize") /= "Ok" THEN ValidationError(r)
    ELSE IF size_mb = 0 \/ size_mb > MaxVideoMemory THEN ValidationError(r)
    ELSE Ok(set_value(r, "Software\\Wine\\Direct3D", "VideoMemorySize", Dword(size_mb)))

set_dpi_settings(r, settings) ==
    IF validate_key_path("Control Panel\\Desktop") /= "Ok" THEN ValidationError(r)
    ELSE IF settings.log_pixels.some
         THEN IF settings.log_pixels.v < MinDpi THEN ValidationError(r)
              ELSE IF validate_value_name("LogPixels") /= "Ok" THEN ValidationError(r)
              ELSE Ok(set_value(r, "Control Panel\\Desktop", "LogPixels",
                                Dword(settings.log_pixels.v)))
         ELSE Ok(r)

\* settings.desktops is given in the order the HashMap iterates it
set_desktop_settings(r, settings) ==
    LET desktops_path == PathJoin("Software\\Wine\\Explorer", "Desktops")
    IN
    IF validate_key_path("Software\\Wine\\Explorer") /= "Ok" THEN ValidationError(r)
    ELSE ApplyWrites(r,
            (IF settings.desktop.some
             THEN <<Write("Software\\Wine\\Explorer", "Desktop", Sz(settings.desktop.v), FALSE)>> ELSE <<>>)
            \o <<Write("Software\\Wine\\Explorer", "ShowSystray",
                       Dword(IF settings.show_systray THEN 1 ELSE 0), FALSE)>>
            \o [i \in 1..Len(settings.desktops) |->
                   Write(desktops_path, settings.desktops[i].name,
                         Sz(DesktopSize_to_string(settings.desktops[i].size)), TRUE)])

ShaderFields ==
    << [field |-> "max_shader_model_vs", name |-> "MaxShaderModelVS"],
       [field |-> "max_shader_model_ps", name |-> "MaxShaderModelPS"],
       [field |-> "max_shader_model_gs", name |-> "MaxShaderModelGS"],
       [field |-> "max_shader_model_hs", name |-> "MaxShaderModelHS"],
       [field |-> "max_shader_model_ds", name |-> "MaxShaderModelDS"],
       [field |-> "max_shader_model_cs", name |-> "MaxShaderModelCS"] >>

set_shader_model_settings(r, settings) ==
    IF validate_key_path("Software\\Wine\\Direct3D") /= "Ok" THEN ValidationError(r)
    ELSE LET present == SelectSeq(ShaderFields, LAMBDA f : settings[f.field].some)
         IN  ApplyWrites(r, [i \in 1..Len(present) |->
                 Write("Software\\Wine\\Direct3D", present[i].name, Dword(settings[present[i].field].v), TRUE)])

\* settings.custom_settings is given in the order the HashMap iterates it
set_app_settings(r, app_name, settings) ==
    LET base_key_path == PathJoin("Software\\Wine\\AppDefaults", app_name)
    IN  IF validate_key_path(base_key_path) /= "Ok" THEN ValidationError(r)
        ELSE ApplyWrites(r,
                [i \in 1..Len(settings.dll_overrides) |->
                    Write(PathJoin(base_key_path, "DllOverrides"), settings.dll_overrides[i].dll,
                          Sz(EnumToString(DllOverrideSetting.to_string,
                                      settings.dll_overrides[i].setting)), TRUE)]
                \o (IF settings.d3d_renderer /= "None"
                    THEN <<Write(PathJoin(base_key_path, "Direct3D"), "renderer",
                                 Sz(EnumToString(D3DRenderer.to_string, settings.d3d_renderer)), TRUE)>>
                    ELSE <<>>)
                \o (IF settings.offscreen_rendering_mode /= "None"
                    THEN <<Write(PathJoin(base_key_path, "Direct3D"), "OffscreenRenderingMode",
                                 Sz(EnumToString(OffscreenRenderingMode.to_string,
                                             settings.offscreen_rendering_mode)), TRUE)>>
                    ELSE <<>>)
                \o [i \in 1..Len(settings.custom_settings) |->
                    Write(base_key_path, settings.custom_settings[i].key,
                          Sz(settings.custom_settings[i].value), TRUE)])

add_font_replacement(r, original, replacement) ==
    IF validate_key_path("Software\\Wine\\Fonts\\Replacements") /= "Ok" THEN ValidationError(r)
    ELSE IF validate_value_name(original) /= "Ok" THEN ValidationError(r)
    ELSE Ok(set_value(r, "Software\\Wine\\Fonts\\Replacements", original, Sz(replacement)))

remove_font_replacement(r, original) ==
    IF validate_key_path("Software\\Wine\\Fonts\\Replacements") /= "Ok" THEN ValidationError(r)
    ELSE IF validate_value_name(original) /= "Ok" THEN ValidationError(r)
    ELSE Ok(delete_value(r, "Software\\Wine\\Fonts\\Replacements", original))

MouseWarpOverride ==
    LET arms == { Enum("Enable", "enable"), Enum("Disable", "disable"), Enum("Force", "force") }
    IN  [to_string |-> arms, from_string |-> arms]

GraphicsDriver ==
    LET arms == { Enum("X11", "x11"), Enum("Mac", "mac"), Enum("Null", "null") }
    IN  [to_string |-> arms, from_string |-> arms]

WindowsFloatWhenInactive ==
    LET arms == { Enum("None", "none"), Enum("All", "all"),
                  Enum("NonFullscreen", "nonfullscreen") }
    IN  [to_string |-> arms, from_string |-> arms]

\* Some(s) of a Sz or ExpandSz value, None for every other type
get_string_value(r, key_path, value_name) ==
    LET value == get_value(r, key_path, value_name)
    IN  IF value.some /\ value.v.type \in {"Sz", "ExpandSz"} THEN Some(value.v.s) ELSE None

\* Some(d) of a Dword value, None for every other type
get_dword_value(r, key_path, value_name) ==
    LET value == get_value(r, key_path, value_name)
    IN  IF value.some /\ value.v.type = "Dword" THEN Some(value.v.d) ELSE None

\* the scalar string settings that share one getter and one setter body:
\* get_X reads value_name of key_path, set_X validates both, parses its
\* argument with the enum's from_string and stores the variant's to_string
ScalarSettings ==
    [ d3d_renderer |->
          [key_path |-> "Software\\Wine\\Direct3D", value_name |-> "renderer",
           enum |-> D3DRenderer],
      offscreen_rendering_mode |->
          [key_path |-> "Software\\Wine\\Direct3D", value_name |-> "OffscreenRenderingMode",
           enum |-> OffscreenRenderingMode],
      mouse_warp_override |->
          [key_path |-> "Software\\Wine\\DirectInput", value_name |-> "MouseWarpOverride",
           enum |-> MouseWarpOverride],
      graphics_driver |->
          [key_path |-> "Software\\Wine\\Drivers\\Graphics", value_name |-> "",
           enum |-> GraphicsDriver] ]

get_scalar(r, setting) ==
    get_string_value(r, ScalarSettings[setting].key_path, ScalarSettings[setting].value_name)

set_scalar_storesArgument(r, setting, str) ==
    LET s == ScalarSettings[setting]
    IN  IF validate_key_path(s.key_path) /= "Ok" THEN ValidationError(r)
        ELSE IF validate_value_name(s.value_name) /= "Ok" THEN ValidationError(r)
        ELSE IF EnumFromString(s.enum.from_string, str) /= "None"
             THEN Ok(set_value(r, s.key_path, s.value_name, Sz(str)))
             ELSE ValidationError(r)

set_scalar(r, setting, str) ==
    LET s == ScalarSettings[setting]
    IN  IF validate_key_path(s.key_path) /= "Ok" THEN ValidationError(r)
        ELSE IF validate_value_name(s.value_name) /= "Ok" THEN ValidationError(r)
        ELSE LET parsed == EnumFromString(s.enum.from_string, str)
             IN  IF parsed /= "None"
                 THEN Ok(set_value(r, s.key_path, s.value_name,
                                   Sz(EnumToString(s.enum.to_string, parsed))))
                 ELSE ValidationError(r)

set_d3d_csmt(r, enabled) ==
    IF validate_key_path("Software\\Wine\\Direct3D") /= "Ok" THEN ValidationError(r)
    ELSE IF validate_value_name("csmt") /= "Ok" THEN ValidationError(r)
    ELSE Ok(set_value(r, "Software\\Wine\\Direct3D", "csmt", Dword(IF enabled THEN 1 ELSE 0)))

get_video_memory_size(r) ==
    get_dword_value(r, "Software\\Wine\\Direct3D", "VideoMemorySize")

\* None when LogPixels is absent, else Some(DpiSettings { log_pixels })
get_dpi_settings(r) ==
    LET log_pixels == get_dword_value(r, "Control Panel\\Desktop", "LogPixels")
    IN  IF log_pixels.some THEN Some([log_pixels |-> log_pixels]) ELSE None

get_shader_model_settings_anyAbsent(r) ==
    LET read(i) == get_dword_value(r, "Software\\Wine\\Direct3D", ShaderFields[i].name)
        fields == {ShaderFields[i].field : i \in 1..Len(ShaderFields)}
    IN  IF \E i \in 1..Len(ShaderFields) : ~read(i).some THEN None
        ELSE Some([f \in fields |->
                     read(CHOOSE i \in 1..Len(ShaderFields) : ShaderFields[i].field = f)])

\* None when all six reads are None, else Some with each field as read
get_shader_model_settings(r) ==
    LET read(i) == get_dword_value(r, "Software\\Wine\\Direct3D", ShaderFields[i].name)
        fields == {ShaderFields[i].field : i \in 1..Len(ShaderFields)}
    IN  IF \A i \in 1..Len(ShaderFields) : ~read(i).some THEN None
        ELSE Some([f \in fields |->
                     read(CHOOSE i \in 1..Len(ShaderFields) : ShaderFields[i].field = f)])

MacFields ==
    << [field |-> "allow_vertical_sync", name |-> "AllowVerticalSync", yes |-> "y"],
       [field |-> "capture_displays_for_fullscreen", name |-> "CaptureDisplaysForFullscreen",
        yes |-> "y"],
       [field |-> "use_precise_scrolling", name |-> "UsePreciseScrolling", yes |-> "y"],
       [field |-> "retina_mode", name |-> "RetinaMode", yes |-> "Y"] >>

\* None when all five reads are None; a WindowsFloatWhenInactive string
\* that from_string rejects leaves its field None
get_mac_driver_settings(r) ==
    LET read(name) == get_string_value(r, "Software\\Wine\\Mac Driver", name)
        float_str == read("WindowsFloatWhenInactive")
        float_mode == IF float_str.some
                      THEN EnumFromString(WindowsFloatWhenInactive.from_string, float_str.v)
                      ELSE "None"
        flag(i) == IF read(MacFields[i].name).some
                   THEN Some(read(MacFields[i].name).v = MacFields[i].yes)
                   ELSE None
    IN  IF (\A i \in 1..Len(MacFields) : ~read(MacFields[i].name).some) /\ ~float_str.some
        THEN None
        ELSE Some([allow_vertical_sync |-> flag(1),
                   capture_displays_for_fullscreen |-> flag(2),
                   use_precise_scrolling |-> flag(3),
                   retina_mode |-> flag(4),
                   windows_float_when_inactive |->
                       IF float_str.some /\ float_mode /= "None" THEN Some(float_mode) ELSE None])

set_mac_driver_settings(r, settings) ==
    IF validate_key_path("Software\\Wine\\Mac Driver") /= "Ok" THEN ValidationError(r)
    ELSE LET present == SelectSeq(MacFields, LAMBDA f : settings[f.field].some)
         IN  ApplyWrites(r,
                [i \in 1..Len(present) |->
                    Write("Software\\Wine\\Mac Driver", present[i].name,
                          Sz(IF settings[present[i].field].v THEN present[i].yes ELSE "n"), TRUE)]
                \o (IF settings.windows_float_when_inactive.some
                    THEN <<Write("Software\\Wine\\Mac Driver", "WindowsFloatWhenInactive",
                                 Sz(EnumToString(WindowsFloatWhenInactive.to_string,
                                                 settings.windows_float_when_inactive.v)), TRUE)>>
                    ELSE <<>>))

\* Sz values of the key as FontReplacement { original, replacement }
get_font_replacements(r) ==
    LET values == get_key_values(r, "Software\\Wine\\Fonts\\Replacements")
    IN  { [original |-> original, replacement |-> values[original].s] :
              original \in {o \in DOMAIN values : values[o].type = "Sz"} }

\* None when the key of the application is not a key of the registry; else
\* the AppSettings read from its DllOverrides and Direct3D subkeys.  The Vec
\* dll_overrides follows the iteration order of a HashMap and is given as the
\* set of its elements; an enum field that is not set is "None".
get_app_settings(r, app_name) ==
    LET key_path == PathJoin("Software\\Wine\\AppDefaults", app_name)
        values == get_key_values(r, PathJoin(key_path, "DllOverrides"))
        setting(dll) == IF values[dll].type = "Sz"
                        THEN EnumFromString(DllOverrideSetting.from_string, values[dll].s)
                        ELSE "None"
        renderer_str == get_string_value(r, PathJoin(key_path, "Direct3D"), "renderer")
        mode_str == get_string_value(r, PathJoin(key_path, "Direct3D"), "OffscreenRenderingMode")
    IN  IF ~key_exists(r, key_path) THEN None
        ELSE Some([dll_overrides |->
                       { [dll |-> dll, setting |-> setting(dll)] :
                             dll \in {d \in DOMAIN values : setting(d) /= "None"} },
                   d3d_renderer |->
                       IF renderer_str.some
                       THEN EnumFromString(D3DRenderer.from_string, renderer_str.v)
                       ELSE "None",
                   offscreen_rendering_mode |->
                       IF mode_str.some
                       THEN EnumFromString(OffscreenRenderingMode.from_string, mode_str.v)
                       ELSE "None"])

remove_app_settings(r, app_name) ==
    LET key_path == PathJoin("Software\\Wine\\AppDefaults", app_name)
    IN  IF validate_key_path(key_path) /= "Ok" THEN ValidationError(r)
        ELSE Ok(delete_key(r, key_path))

\* the flags of X11DriverSettings in the order they are read and written;
\* on: the stored string that reads as true is any but "N", or only "Y"
X11Fields ==
    << [field |-> "decorated", name |-> "Decorated", on |-> "not N"],
       [field |-> "client_side_graphics", name |-> "ClientSideGraphics", on |-> "not N"],
       [field |-> "client_side_with_render", name |-> "ClientSideWithRender", on |-> "not N"],
       [field |-> "client_side_antialias_with_render",
        name |-> "ClientSideAntiAliasWithRender", on |-> "not N"],
       [field |-> "client_side_antialias_with_core",
        name |-> "ClientSideAntiAliasWithCore", on |-> "not N"],
       [field |-> "grab_fullscreen", name |-> "GrabFullscreen", on |-> "Y"],
       [field |-> "grab_pointer", name |-> "GrabPointer", on |-> "not N"],
       [field |-> "managed", name |-> "Managed", on |-> "not N"],
       [field |-> "use_xrandr", name |-> "UseXRandR", on |-> "not N"],
       [field |-> "use_xvid_mode", name |-> "UseXVidMode", on |-> "Y"] >>

\* None when all ten reads are None, else Some with each flag as decoded
get_x11_driver_settings(r) ==
    LET read(i) == get_string_value(r, "Software\\Wine\\X11 Driver", X11Fields[i].name)
        index(f) == CHOOSE i \in 1..Len(X11Fields) : X11Fields[i].field = f
        flag(i) == IF read(i).some
                   THEN Some(IF X11Fields[i].on = "Y" THEN read(i).v = "Y" ELSE read(i).v /= "N")
                   ELSE None
    IN  IF \A i \in 1..Len(X11Fields) : ~read(i).some THEN None
        ELSE Some([f \in {X11Fields[i].field : i \in 1..Len(X11Fields)} |-> flag(index(f))])

set_x11_driver_settings_lowercase(r, settings) ==
    LET present == SelectSeq(X11Fields, LAMBDA f : settings[f.field].some)
    IN  ApplyWrites(r,
           [i \in 1..Len(present) |->
               Write("Software\\Wine\\X11 Driver", present[i].name,
                     Sz(IF settings[present[i].field].v THEN "y" ELSE "n"), TRUE)])

set_x11_driver_settings(r, settings) ==
    IF validate_key_path("Software\\Wine\\X11 Driver") /= "Ok" THEN ValidationError(r)
    ELSE LET present == SelectSeq(X11Fields, LAMBDA f : settings[f.field].some)
         IN  ApplyWrites(r,
                [i \in 1..Len(present) |->
                    Write("Software\\Wine\\X11 Driver", present[i].name,
                          Sz(IF settings[present[i].field].v THEN "Y" ELSE "N"), TRUE)])

\* always Some: desktop as read, show_systray 1 when ShowSystray is absent,
\* desktops the Sz values of ...\Desktops that DesktopSize::from_string
\* (split('x') into two parts that parse::<u32>) accepts; numbers of up to
\* nine digits, which all fit a u32
get_desktop_settings(r) ==
    LET digits(s) == \A i \in 1..Len(s) : Contains("0123456789", SubSeq(s, i, i))
        digit(c) == CHOOSE d \in 0..9 : SubSeq("0123456789", d + 1, d + 1) = c
        RECURSIVE value(_)
        value(s) == IF Len(s) = 0 THEN 0
                    ELSE value(SubSeq(s, 1, Len(s) - 1)) * 10 + digit(SubSeq(s, Len(s), Len(s)))
        parse_u32(s) ==
            LET body == IF Len(s) > 0 /\ SubSeq(s, 1, 1) = "+" THEN SubSeq(s, 2, Len(s)) ELSE s
            IN  IF Len(body) > 0 /\ Len(body) <= 9 /\ digits(body)
                THEN Some(value(body)) ELSE None
        DesktopSize_from_string(s) ==
            LET xs == {i \in 1..Len(s) : SubSeq(s, i, i) = "x"}
                x == CHOOSE i \in xs : TRUE
                width == parse_u32(SubSeq(s, 1, x - 1))
                height == parse_u32(SubSeq(s, x + 1, Len(s)))
            IN  IF Cardinality(xs) = 1 /\ width.some /\ height.some
                THEN Some([width |-> width.v, height |-> height.v]) ELSE None
        desktop == get_string_value(r, "Software\\Wine\\Explorer", "Desktop")
        show == get_dword_value(r, "Software\\Wine\\Explorer", "ShowSystray")
        values == get_key_values(r, "Software\\Wine\\Explorer" \o "\\Desktops")
        sized == {name \in DOMAIN values :
                     values[name].type = "Sz" /\ DesktopSize_from_string(values[name].s).some}
    IN  Some([desktop |-> desktop,
              desktops |-> [name \in sized |-> DesktopSize_from_string(values[name].s).v],
              show_systray |-> (IF show.some THEN show.v ELSE 1) /= 0])

\* the Vec<ValidationError> as the set of its (key_path, value_name)
\* pairs; a key whose path fails is reported and its values are skipped
validate_registry(r) ==
    LET all_keys == find_keys(r, "")
        bad_keys == {key_path \in all_keys : validate_key_path(key_path) /= "Ok"}
    IN  { [key_path |-> key_path, value_name |-> None] : key_path \in bad_keys }
        \cup UNION { { [key_path |-> key_path, value_name |-> Some(value_name)] :
                          value_name \in { n \in DOMAIN get_key_values(r, key_path) :
                                               validate_value_name(n) /= "Ok" } } :
                     key_path \in all_keys \ bad_keys }

----------------------------------------------------------------------------
(* SpecStore: one WineRegistry handle and a caller of its operations       *)

StoreKeys ==
    {"Software\\Wine", "Software\\Wine\\Direct3D"}
StoreNames ==
    {"", "(default)", "SomeName", "A"}
StoreValues ==
    {Sz("v"), Sz("w"), Dword(1)}

Call(op, k, n, v, res) ==
    [op |-> op, key |-> k, name |-> n, value |-> v, res |-> res]

SetValue(k, n, v) ==
    /\ reg' = set_value(reg, k, n, v)
    /\ last' = Call("set_value", k, n, v, None)

DeleteValueCall(k, n) ==
    /\ reg' = delete_value(reg, k, n)
    /\ last' = Call("delete_value", k, n, NoValue, None)

DeleteKey(k) ==
    /\ reg' = delete_key(reg, k)
    /\ last' = Call("delete_key", k, "", NoValue, None)

GetValue(k, n) ==
    /\ last' = Call("get_value", k, n, NoValue, get_value(reg, k, n))
    /\ UNCHANGED reg

----------------------------------------------------------------------------
(* SpecPrefix: WineRegistry::load_from_prefix over the three files         *)

FileNames ==
    {"system.reg", "user.reg", "userdef.reg"}

OneKey(k, v) ==
    RegistryWith(RegistryNew, k, KeyWith(KeyNew, ValueNameNamed("A"), v))

\* what a parseable .reg file can hold: only the header, or keys
FileContents ==
    { RegistryNew,
      OneKey("Software\\A", Sz("v")),
      OneKey("Software\\B", Sz("v")),
      OneKey("Software\\C", Sz("w")),
      RegistryWith(OneKey("Software\\A", Sz("w")), "Software\\C", KeyWith(KeyNew, ValueNameDefault, Dword(1))) }

\* a file is missing, present but unparseable, or present and parseable
FileStates ==
    [state : {"missing", "corrupt"}, content : {RegistryNew}]
        \cup [state : {"ok"}, content : FileContents]

\* the closure run on the blocking pool for one file:
\* if path.exists() { Registry::deserialize_file(&path).map(Some) } else { Ok(None) }
ReadRegFile(f) ==
    IF f.state = "missing" THEN [tag |-> "OkNone", registry |-> RegistryNew]
    ELSE IF f.state = "corrupt" THEN [tag |-> "Err", registry |-> RegistryNew]
    ELSE [tag |-> "OkSome", registry |-> f.content]

\* (mutant) a key-level union: the parsed keys are merged into the result
TakeRegistry_union(merged, parsed) ==
    [k \in (DOMAIN merged) \cup (DOMAIN parsed) |->
        IF k \in DOMAIN parsed THEN parsed[k] ELSE merged[k]]

\* merged_registry = <the registry parsed from a file>
TakeRegistry(merged, parsed) ==
    parsed

\* (mutant) the guard on userdef.reg inverted
UserdefApplies_inverted(merged) ==
    DOMAIN merged /= {}

\* if merged_registry.keys().is_empty() (the guard on userdef.reg)
UserdefApplies(merged) ==
    DOMAIN merged = {}

\* (mutant) the call fails unless all three files were loaded
NoValidFiles_anyMissing(loaded_files) ==
    Len(loaded_files) < Cardinality(FileNames)

\* if loaded_files.is_empty()
NoValidFiles(loaded_files) ==
    loaded_files = <<>>

load_from_prefix(fs) ==
    LET system_result == ReadRegFile(fs["system.reg"])
        user_result == ReadRegFile(fs["user.reg"])
        userdef_result == ReadRegFile(fs["userdef.reg"])
        m0 == RegistryNew
        l0 == <<>>
        m1 == IF system_result.tag = "OkSome"
              THEN TakeRegistry(m0, system_result.registry) ELSE m0
        l1 == IF system_result.tag = "OkSome" THEN Append(l0, "system.reg") ELSE l0
        m2 == IF userdef_result.tag = "OkSome" /\ UserdefApplies(m1)
              THEN TakeRegistry(m1, userdef_result.registry) ELSE m1
        l2 == IF userdef_result.tag = "OkSome" THEN Append(l1, "userdef.reg") ELSE l1
        m3 == IF user_result.tag = "OkSome"
              THEN TakeRegistry(m2, user_result.registry) ELSE m2
        l3 == IF user_result.tag = "OkSome" THEN Append(l2, "user.reg") ELSE l2
    IN  IF NoValidFiles(l3)
        THEN [status |-> "Err", error |-> "No valid registry files found in Wine prefix",
              registry |-> RegistryNew, loaded_files |-> l3]
        ELSE [status |-> "Ok", error |-> "", registry |-> m3, loaded_files |-> l3]

NotLoaded ==
    [status |-> "none", error |-> "", registry |-> RegistryNew, loaded_files |-> <<>>]

LoadFromPrefix ==
    /\ loaded' = load_from_prefix(files)
    /\ UNCHANGED files

----------------------------------------------------------------------------
(* SpecCache: InMemoryRegistryCache under a clock                          *)

MaxTime == 4
MaxTtl == 2
MaxSweeps == 1

Paths ==
    {"/prefix1", "/prefix2"}
\* WineRegistry handles (each stands for one Arc<RwLock<Registry>>)
Handles ==
    {1, 2}

\* CacheEntry::new(registry, ttl): created_at = Instant::now()
CacheEntryNew(registry, ttl, t) ==
    [registry |-> registry, created_at |-> t, ttl |-> ttl]

\* (mutant) an entry whose age equals its ttl already counts as expired
is_expired_atTtl(entry, t) ==
    (t - entry.created_at) >= entry.ttl

\* CacheEntry::is_expired: self.created_at.elapsed() > self.ttl
is_expired(entry, t) ==
    (t - entry.created_at) > entry.ttl

MapRemove(m, k) ==
    [x \in (DOMAIN m) \ {k} |-> m[x]]

get_cached_registry(c, prefix_path, t) ==
    IF prefix_path \in DOMAIN c /\ ~is_expired(c[prefix_path], t)
    THEN Some(c[prefix_path].registry)
    ELSE None

cache_registry(c, prefix_path, registry, ttl, t) ==
    MapPut(c, prefix_path, CacheEntryNew(registry, ttl, t))

\* (mutant) the entry is left in place
invalidate_cache_keeps(c, prefix_path) ==
    c

invalidate_cache(c, prefix_path) ==
    MapRemove(c, prefix_path)

clear_all_cache(c) ==
    EmptyMap

\* the task spawned by cleanup_expired:
\* retain(|_, entry| now.duration_since(entry.created_at) < entry.ttl)
sweep_expired(c, t) ==
    [x \in {q \in DOMAIN c : (t - c[q].created_at) < c[q].ttl} |-> c[x]]

stats(c, t) ==
    LET total_entries == Cardinality(DOMAIN c)
        expired_entries == Cardinality({q \in DOMAIN c : (t - c[q].created_at) > c[q].ttl})
    IN  [total_entries |-> total_entries,
         expired_entries |-> expired_entries,
         valid_entries |-> total_entries - expired_entries]

Event(kind, t) ==
    [kind |-> kind, at |-> t]

Tick ==
    /\ now < MaxTime
    /\ now' = now + 1
    /\ UNCHANGED <<cache, default_ttl, sweeps, lastGet, lastStats, hist>>

\* (mutant) a miss on an expired entry evicts it
GetCachedRegistry_evicts(q) ==
    /\ lastGet' = [seq |-> 1 - lastGet.seq, path |-> q,
                   res |-> get_cached_registry(cache, q, now)]
    /\ cache' = IF q \in DOMAIN cache /\ is_expired(cache[q], now)
                THEN MapRemove(cache, q) ELSE cache
    /\ UNCHANGED <<default_ttl, now, sweeps, lastStats, hist>>

GetCachedRegistry(q) ==
    /\ lastGet' = [seq |-> 1 - lastGet.seq, path |-> q,
                   res |-> get_cached_registry(cache, q, now)]
    /\ UNCHANGED <<cache, default_ttl, now, sweeps, lastStats, hist>>

CacheRegistry(q, h) ==
    /\ cache' = cache_registry(cache, q, h, default_ttl, now)
    /\ hist' = [hist EXCEPT ![q] = Event("cached", now)]
    /\ UNCHANGED <<default_ttl, now, sweeps, lastGet, lastStats>>

InvalidateCache(q) ==
    /\ cache' = invalidate_cache(cache, q)
    /\ hist' = [hist EXCEPT ![q] = Event("invalidated", now)]
    /\ UNCHANGED <<default_ttl, now, sweeps, lastGet, lastStats>>

ClearAllCache ==
    /\ cache' = clear_all_cache(cache)
    /\ hist' = [q \in Paths |-> Event("cleared", now)]
    /\ UNCHANGED <<default_ttl, now, sweeps, lastGet, lastStats>>

\* cleanup_expired returns Ok(()) as soon as the sweep task is spawned
CleanupExpired ==
    /\ sweeps < MaxSweeps
    /\ sweeps' = sweeps + 1
    /\ UNCHANGED <<cache, default_ttl, now, lastGet, lastStats, hist>>

\* the spawned task: takes the write lock and retains
SweepRuns ==
    /\ sweeps > 0
    /\ sweeps' = sweeps - 1
    /\ cache' = sweep_expired(cache, now)
    /\ hist' = [q \in Paths |->
                  IF q \in DOMAIN cache /\ q \notin DOMAIN cache'
                  THEN Event("swept", now) ELSE hist[q]]
    /\ UNCHANGED <<default_ttl, now, lastGet, lastStats>>

Stats ==
    /\ lastStats' = stats(cache, now)
    /\ UNCHANGED <<cache, default_ttl, now, sweeps, lastGet, hist>>

----------------------------------------------------------------------------
(* SpecSave: RegistryEditor::load_registry / save_registry next to other   *)
(* users of the same cache                                                 *)

\* get_registry_path: prefix_path.join("user.reg").canonicalize()
get_registry_path(d, prefix_path) ==
    IF d[prefix_path].state = "absent"
    THEN [status |-> "InvalidPath"]
    ELSE [status |-> "Ok"]

SaveResult(seq, prefix_path, status, had) ==
    [seq |-> seq, path |-> prefix_path, status |-> status, had |-> had]

\* save_registry, up to the ? after get_registry_path
SaveBegin(q) ==
    /\ saveTask.pc = "idle"
    /\ IF get_registry_path(disk, q).status = "Ok"
       THEN /\ saveTask' = [pc |-> "resolved", path |-> q]
            /\ UNCHANGED lastSave
       ELSE /\ lastSave' = SaveResult(1 - lastSave.seq, q, "InvalidPath", q \in DOMAIN cache)
            /\ UNCHANGED saveTask
    /\ UNCHANGED <<editor, disk, cache, default_ttl, now, sweeps, lastGet, lastStats, hist>>

\* self.registry.save_to_file(&registry_path).await?
SaveToFile ==
    /\ saveTask.pc = "resolved"
    /\ IF disk[saveTask.path].state = "writable"
       THEN /\ disk' = [disk EXCEPT ![saveTask.path].content = editor.registry]
            /\ saveTask' = [saveTask EXCEPT !.pc = "written"]
            /\ UNCHANGED lastSave
       ELSE /\ lastSave' = SaveResult(1 - lastSave.seq, saveTask.path, "RegistryError",
                                      saveTask.path \in DOMAIN cache)
            /\ saveTask' = [saveTask EXCEPT !.pc = "idle"]
            /\ UNCHANGED disk
    /\ UNCHANGED <<editor, cache, default_ttl, now, sweeps, lastGet, lastStats, hist>>

\* self.cache.invalidate_cache(prefix_path).await?; Ok(())
SaveInvalidate ==
    /\ saveTask.pc = "written"
    /\ cache' = invalidate_cache(cache, saveTask.path)
    /\ hist' = [hist EXCEPT ![saveTask.path] = Event("saved", now)]
    /\ lastSave' = SaveResult(1 - lastSave.seq, saveTask.path, "Ok",
                              saveTask.path \in DOMAIN cache)
    /\ saveTask' = [saveTask EXCEPT !.pc = "idle"]
    /\ UNCHANGED <<editor, disk, default_ttl, now, sweeps, lastGet, lastStats>>

\* load_registry (&mut self, so no save of this editor is in progress)
LoadRegistry(q, h) ==
    /\ saveTask.pc = "idle"
    /\ get_registry_path(disk, q).status = "Ok"
    /\ editor' = [registry |-> h, prefix_path |-> q]
    /\ cache' = cache_registry(cache, q, h, default_ttl, now)
    /\ hist' = [hist EXCEPT ![q] = Event("cached", now)]
    /\ UNCHANGED <<disk, saveTask, lastSave, default_ttl, now, sweeps, lastGet, lastStats>>

----------------------------------------------------------------------------
(* SpecConc: tasks calling the store operations on clones of one handle.   *)
(* Every operation runs its closure on the blocking pool: it takes the     *)
(* lock, works on the registry and drops the guard when the closure ends.  *)

TaskIds ==
    {"t1", "t2", "t3"}

WriteOps ==
    {"set_value", "delete_value", "delete_key"}
ReadOps ==
    {"get_value", "find_keys", "get_key_values", "key_exists"}

\* (mutant) every operation takes the lock with blocking_read
LockMode_allRead(op) ==
    "read"

\* registry.blocking_write() in the writers, registry.blocking_read() in the readers
LockMode(op) ==
    IF op \in WriteOps THEN "write" ELSE "read"

NoResult ==
    [value |-> None, keys |-> {}, values |-> EmptyMap, exists |-> FALSE]

TaskIdle ==
    [pc |-> "idle", op |-> "none", key |-> "", name |-> "",
     value |-> NoValue, local |-> RegistryNew, res |-> NoResult]

\* the registry a writer stores: registry.with(key_path, key) on its clone
WriterResult(tk) ==
    IF tk.op = "set_value" THEN set_value(tk.local, tk.key, tk.name, tk.value)
    ELSE IF tk.op = "delete_value" THEN delete_value(tk.local, tk.key, tk.name)
    ELSE delete_key(tk.local, tk.key)

\* what a reader returns
ReaderResult(tk, r) ==
    IF tk.op = "get_value" THEN [NoResult EXCEPT !.value = get_value(r, tk.key, tk.name)]
    ELSE IF tk.op = "find_keys" THEN [NoResult EXCEPT !.keys = find_keys(r, tk.key)]
    ELSE IF tk.op = "get_key_values" THEN [NoResult EXCEPT !.values = get_key_values(r, tk.key)]
    ELSE [NoResult EXCEPT !.exists = key_exists(r, tk.key)]

\* the call: its closure is handed to spawn_blocking
SpawnOp(t, op, k, n, v) ==
    /\ tasks[t].pc = "idle"
    /\ tasks' = [tasks EXCEPT ![t] = [TaskIdle EXCEPT !.pc = "spawned", !.op = op,
                                       !.key = k, !.name = n, !.value = v]]
    /\ UNCHANGED <<shared, lockWriter, lockReaders>>

\* (mutant) the writer does not wait for the readers to leave
AcquireWrite_ignoresReaders(t) ==
    /\ tasks[t].pc = "spawned"
    /\ LockMode(tasks[t].op) = "write"
    /\ lockWriter = "none"
    /\ lockWriter' = t
    /\ tasks' = [tasks EXCEPT ![t].pc = "locked"]
    /\ UNCHANGED <<shared, lockReaders>>

\* let mut reg = registry.blocking_write();
AcquireWrite(t) ==
    /\ tasks[t].pc = "spawned"
    /\ LockMode(tasks[t].op) = "write"
    /\ lockWriter = "none" /\ lockReaders = {}
    /\ lockWriter' = t
    /\ tasks' = [tasks EXCEPT ![t].pc = "locked"]
    /\ UNCHANGED <<shared, lockReaders>>

\* let reg = registry.blocking_read();
AcquireRead(t) ==
    /\ tasks[t].pc = "spawned"
    /\ LockMode(tasks[t].op) = "read"
    /\ lockWriter = "none"
    /\ lockReaders' = lockReaders \cup {t}
    /\ tasks' = [tasks EXCEPT ![t].pc = "locked"]
    /\ UNCHANGED <<shared, lockWriter>>

\* let mut registry = (*reg).clone();
CloneRegistry(t) ==
    /\ tasks[t].pc = "locked"
    /\ tasks[t].op \in WriteOps
    /\ tasks' = [tasks EXCEPT ![t].pc = "cloned", ![t].local = shared]
    /\ UNCHANGED <<shared, lockWriter, lockReaders>>

\* registry = registry.with(key_path.clone(), key); *reg = registry;
StoreRegistry(t) ==
    /\ tasks[t].pc = "cloned"
    /\ shared' = WriterResult(tasks[t])
    /\ tasks' = [tasks EXCEPT ![t].pc = "finished"]
    /\ UNCHANGED <<lockWriter, lockReaders>>

\* the loop over reg.keys() of a reader
ReadRegistry(t) ==
    /\ tasks[t].pc = "locked"
    /\ tasks[t].op \in ReadOps
    /\ tasks' = [tasks EXCEPT ![t].pc = "finished", ![t].res = ReaderResult(tasks[t], shared)]
    /\ UNCHANGED <<shared, lockWriter, lockReaders>>

\* save_to_file: reg.serialize_file(&path_clone) under the guard `reg`; the
\* file I/O is in progress while pc = "writing".  The keys are written one
\* after the other: Software\Wine in the first step, the others in the
\* second; local is the file written so far.
SerializeFile(t) ==
    LET first == {"Software\\Wine"}
        part(keys) == [k \in keys |-> shared[k]]
    IN  /\ tasks[t].op = "save_to_file"
        /\ tasks[t].pc \in {"locked", "writing"}
        /\ tasks' = [tasks EXCEPT
                        ![t].pc = IF @ = "locked" THEN "writing" ELSE "finished",
                        ![t].local = IF tasks[t].pc = "locked"
                                     THEN part(DOMAIN shared \cap first)
                                     ELSE @ @@ part(DOMAIN shared \ first)]
        /\ UNCHANGED <<shared, lockWriter, lockReaders>>

\* the closure returns and the guard is dropped
ReleaseLock(t) ==
    /\ tasks[t].pc = "finished"
    /\ lockWriter' = IF lockWriter = t THEN "none" ELSE lockWriter
    /\ lockReaders' = lockReaders \ {t}
    /\ tasks' = [tasks EXCEPT ![t].pc = "done"]
    /\ UNCHANGED shared

----------------------------------------------------------------------------
(* SpecEditor: a RegistryEditor and a caller of its setters                *)

\* DesktopSettings; desktops is given in the order the HashMap iterates it
DesktopSettingsInputs ==
    LET entry(name) == [name |-> name, size |-> [width |-> 800, height |-> 600]]
    IN  [desktop : {None, Some("Default")},
         desktops : { <<>>, <<entry("Default")>>, <<entry("a:b")>>,
                      <<entry("Default"), entry("a:b")>>,
                      <<entry("a:b"), entry("Default")>> },
         show_systray : BOOLEAN]

\* ShaderModelSettings::new() with some of its fields set
ShaderInputs ==
    LET fields == {ShaderFields[i].field : i \in 1..Len(ShaderFields)}
        with(present) == [f \in fields |-> IF f \in present THEN Some(3) ELSE None]
    IN  { with({}), with({"max_shader_model_ps"}),
          with({"max_shader_model_vs", "max_shader_model_ps"}), with(fields) }

\* AppSettings; custom_settings is given in the order the HashMap iterates it
AppSettingsInputs ==
    [dll_overrides : { <<>>, <<[dll |-> "d3d9", setting |-> "Native"]>>,
                       <<[dll |-> "d3d9", setting |-> "Native"],
                         [dll |-> "a:b", setting |-> "Builtin"]>> },
     d3d_renderer : {"None", "Vulkan"},
     offscreen_rendering_mode : {"None", "FBO"},
     custom_settings : { <<>>, <<[key |-> "Default", value |-> "v"]>>,
                         <<[key |-> "a:b", value |-> "v"]>> }]

\* the setter called with arg returns res and leaves res.reg in the store
Returns(op, arg, res) ==
    /\ reg' = res.reg
    /\ edCall' = [op |-> op, arg |-> arg, status |-> res.status]
    /\ UNCHANGED last

\* nth is 2 when the call before it was set_windows_version with the same
\* argument, else 1
SetWindowsVersion(version) ==
    LET res == set_windows_version(reg, version)
    IN  /\ reg' = res.reg
        /\ edCall' = [op |-> "set_windows_version", arg |-> version, status |-> res.status,
                      nth |-> IF edCall.op = "set_windows_version" /\ edCall.arg = version
                              THEN 2 ELSE 1]
        /\ UNCHANGED last
SetAudioDriver(driver) ==
    Returns("set_audio_driver", driver, set_audio_driver(reg, driver))
SetVideoMemorySize(size_mb) ==
    Returns("set_video_memory_size", size_mb, set_video_memory_size(reg, size_mb))
SetDpiSettings(settings) ==
    Returns("set_dpi_settings", settings, set_dpi_settings(reg, settings))
SetDesktopSettings(settings) ==
    Returns("set_desktop_settings", settings, set_desktop_settings(reg, settings))
SetShaderModelSettings(settings) ==
    Returns("set_shader_model_settings", settings, set_shader_model_settings(reg, settings))
SetAppSettings(app_name, settings) ==
    Returns("set_app_settings", [app_name |-> app_name, settings |-> settings],
            set_app_settings(reg, app_name, settings))
RemoveAppSettings(app_name) ==
    Returns("remove_app_settings", app_name, remove_app_settings(reg, app_name))
AddFontReplacement(original, replacement) ==
    Returns("add_font_replacement", [original |-> original, replacement |-> replacement],
            add_font_replacement(reg, original, replacement))
RemoveFontReplacement(original) ==
    Returns("remove_font_replacement", original, remove_font_replacement(reg, original))
\* set_d3d_renderer, set_offscreen_rendering_mode, set_mouse_warp_override,
\* set_graphics_driver
SetScalar(setting, str) ==
    Returns("set_" \o setting, str, set_scalar(reg, setting, str))
SetD3DCsmt(enabled) ==
    Returns("set_d3d_csmt", enabled, set_d3d_csmt(reg, enabled))
SetMacDriverSettings(settings) ==
    Returns("set_mac_driver_settings", settings, set_mac_driver_settings(reg, settings))
SetX11DriverSettings(settings) ==
    Returns("set_x11_driver_settings", settings, set_x11_driver_settings(reg, settings))
GetShaderModelSettings ==
    /\ edCall' = [op |-> "get_shader_model_settings", arg |-> "", status |-> "Ok",
                  ret |-> get_shader_model_settings(reg)]
    /\ UNCHANGED <<reg, last>>
ValidateRegistry ==
    /\ edCall' = [op |-> "validate_registry", arg |-> "", status |-> "Ok",
                  ret |-> validate_registry(reg)]
    /\ UNCHANGED <<reg, last>>

----------------------------------------------------------------------------
(* SpecShare: editors made by RegistryEditor::with_prefix over one cache   *)
(* and one prefix.  A WineRegistry handle is [arc, origin]: arc names the  *)
(* Arc<RwLock<Registry>> it points to (an index of heap), origin the       *)
(* allocation it was cloned from, directly or through other clones.        *)

MaxHandles == 3

Editors ==
    {"e1", "e2"}

PrefixPath ==
    "/prefix1"

\* saved: the editor's save_registry has returned Ok; after: the editors whose
\* save_registry had returned Ok when this editor's with_prefix was called
NoEditor ==
    [pc |-> "new", registry |-> [arc |-> 0, origin |-> 0], writes |-> 0, value |-> NoValue,
     saved |-> FALSE, after |-> {}]

\* (mutant) clone makes a copy of the registry behind a new Arc
WineRegistry_clone_deep(hp, w) ==
    [heap |-> Append(hp, hp[w.arc]),
     registry |-> [arc |-> Len(hp) + 1, origin |-> w.origin]]

\* #[derive(Clone)] on WineRegistry: Arc::clone of the registry field
WineRegistry_clone(hp, w) ==
    [heap |-> hp, registry |-> w]

\* with_prefix, the lookup: on a hit the editor takes the clone handed out
\* by get_cached_registry
WithPrefixLookup(e) ==
    /\ editors[e].pc = "new"
    /\ LET cached_registry == get_cached_registry(cache, PrefixPath, now)
           savers == {s \in Editors : editors[s].saved}
       IN  IF cached_registry.some
           THEN LET cl == WineRegistry_clone(heap, cached_registry.v)
                IN  /\ heap' = cl.heap
                    /\ editors' = [editors EXCEPT ![e].pc = "ready", ![e].registry = cl.registry,
                                                  ![e].after = savers]
           ELSE /\ editors' = [editors EXCEPT ![e].pc = "miss", ![e].after = savers]
                /\ UNCHANGED heap
    /\ UNCHANGED <<cache, files, now>>

\* with_prefix after a miss: WineRegistry::load_from_prefix(prefix_path).await?
WithPrefixLoad(e) ==
    /\ editors[e].pc = "miss"
    /\ LET res == load_from_prefix(files)
       IN  IF res.status = "Ok"
           THEN /\ Len(heap) < MaxHandles
                /\ heap' = Append(heap, res.registry)
                /\ editors' = [editors EXCEPT ![e].pc = "loaded",
                                  ![e].registry = [arc |-> Len(heap) + 1, origin |-> Len(heap) + 1]]
           ELSE /\ editors' = [editors EXCEPT ![e].pc = "failed"]
                /\ UNCHANGED heap
    /\ UNCHANGED <<cache, files, now>>

\* cache.cache_registry(prefix_path, registry.clone()).await?; Ok(Self { .. })
WithPrefixCache(e) ==
    /\ editors[e].pc = "loaded"
    /\ LET cl == WineRegistry_clone(heap, editors[e].registry)
       IN  /\ heap' = cl.heap
           /\ cache' = cache_registry(cache, PrefixPath, cl.registry, default_ttl, now)
    /\ editors' = [editors EXCEPT ![e].pc = "ready"]
    /\ UNCHANGED <<files, now>>

\* a setter of the editor: self.registry.set_value(..) on the handle it holds
EditorSetValue(e, v) ==
    /\ editors[e].pc = "ready"
    /\ heap' = [heap EXCEPT ![editors[e].registry.arc] = set_value(@, "Software\\Wine", "A", v)]
    /\ editors' = [editors EXCEPT ![e].writes = 1 - @, ![e].value = v]
    /\ UNCHANGED <<cache, files, now>>

\* save_registry(prefix_path): the registry behind the editor's handle is
\* written to user.reg of the prefix, then the cache entry of the prefix is
\* invalidated.  user.reg exists in every prefix of this specification, so
\* get_registry_path succeeds.
EditorSaveRegistry(e) ==
    /\ editors[e].pc = "ready"
    /\ files' = [files EXCEPT !["user.reg"] =
                    [state |-> "ok", content |-> heap[editors[e].registry.arc]]]
    /\ cache' = invalidate_cache(cache, PrefixPath)
    /\ editors' = [editors EXCEPT ![e].saved = TRUE]
    /\ UNCHANGED <<heap, now>>

\* the handles held by the editors and by the cache entries
Holders(eds, c) ==
    {eds[e].registry : e \in {x \in Editors : eds[x].pc \in {"loaded", "ready"}}}
        \cup {c[q].registry : q \in DOMAIN c}

----------------------------------------------------------------------------
(* The specifications.  Each one runs one part of the subsystem; the       *)
(* variables of the other parts stay at the values of a fresh object.      *)

\* the parts that a specification leaves alone, as their constructors
\* leave them: WineRegistry::new, InMemoryRegistryCache::new,
\* RegistryEditor::new
Idle(parts) ==
    /\ IF "store" \in parts THEN reg = RegistryNew ELSE TRUE
    /\ IF "calls" \in parts
       THEN /\ last = Call("none", "", "", NoValue, None)
            /\ edCall = [op |-> "none", arg |-> "", status |-> "none"]
       ELSE TRUE
    /\ IF "prefix" \in parts
       THEN /\ files = [f \in FileNames |-> [state |-> "missing", content |-> RegistryNew]]
            /\ loaded = NotLoaded
       ELSE TRUE
    /\ IF "ttl" \in parts THEN default_ttl = 0 ELSE TRUE
    /\ IF "cache" \in parts
       THEN /\ cache = EmptyMap
            /\ now = 0
            /\ sweeps = 0
            /\ lastGet = [seq |-> 0, path |-> "/prefix1", res |-> None]
            /\ lastStats = stats(EmptyMap, 0)
            /\ hist = [q \in Paths |-> Event("never", 0)]
       ELSE TRUE
    /\ IF "editor" \in parts
       THEN /\ editor = [registry |-> 1, prefix_path |-> "none"]
            /\ saveTask = [pc |-> "idle", path |-> "/prefix1"]
            /\ lastSave = SaveResult(0, "/prefix1", "none", FALSE)
       ELSE TRUE
    /\ IF "disk" \in parts
       THEN disk = [q \in Paths |-> [state |-> "absent", content |-> 0]]
       ELSE TRUE
    /\ IF "conc" \in parts
       THEN /\ lockWriter = "none"
            /\ lockReaders = {}
            /\ tasks = [t \in TaskIds |-> TaskIdle]
       ELSE TRUE
    /\ IF "shared" \in parts THEN shared = RegistryNew ELSE TRUE
    /\ IF "share" \in parts
       THEN /\ heap = <<>>
            /\ editors = [e \in Editors |-> NoEditor]
       ELSE TRUE

\* SpecStore: one WineRegistry handle and a caller of its operations.  The
\* handle holds what new() or a parsed file gave it.
Init ==
    /\ Idle({"calls", "prefix", "ttl", "cache", "editor", "disk", "conc", "shared", "share"})
    /\ reg \in { RegistryNew,
                 RegistryWith(RegistryNew, "Software\\Wine",
                     KeyWith(KeyWith(KeyNew, ValueNameNamed("A"), Sz("v")),
                             ValueNameNamed("SomeName"), Sz("w"))),
                 RegistryWith(RegistryNew, "Software\\Wine\\Direct3D",
                     KeyWith(KeyWith(KeyNew, ValueNameDefault, Sz("v")),
                             ValueNameNamed("SomeName"), Dword(1))) }

Next ==
    /\ \/ \E k \in StoreKeys, n \in StoreNames, v \in StoreValues : SetValue(k, n, v)
       \/ \E k \in StoreKeys, n \in StoreNames : DeleteValueCall(k, n)
       \/ \E k \in StoreKeys : DeleteKey(k)
       \/ \E k \in StoreKeys, n \in StoreNames : GetValue(k, n)
    /\ UNCHANGED <<heap, editors, edCall, files, loaded, cache, default_ttl, now, sweeps, lastGet, lastStats,
                   hist, editor, disk, saveTask, lastSave, shared, lockWriter, lockReaders, tasks>>

Spec ==
    Init /\ [][Next]_vars

\* SpecPrefix: WineRegistry::load_from_prefix over the three files
PrefixInit ==
    /\ Idle({"store", "calls", "ttl", "cache", "editor", "disk", "conc", "shared", "share"})
    /\ files \in [FileNames -> FileStates]
    /\ loaded = NotLoaded

PrefixNext ==
    /\ LoadFromPrefix
    /\ UNCHANGED <<heap, editors, reg, last, edCall, cache, default_ttl, now, sweeps, lastGet, lastStats, hist,
                   editor, disk, saveTask, lastSave, shared, lockWriter, lockReaders, tasks>>

SpecPrefix ==
    PrefixInit /\ [][PrefixNext]_vars

\* SpecCache: InMemoryRegistryCache under a clock
CacheInit ==
    /\ Idle({"store", "calls", "prefix", "cache", "editor", "disk", "conc", "shared", "share"})
    /\ default_ttl \in 0..MaxTtl

CacheNext ==
    /\ \/ Tick
       \/ \E q \in Paths : GetCachedRegistry(q)
       \/ \E q \in Paths, h \in Handles : CacheRegistry(q, h)
       \/ \E q \in Paths : InvalidateCache(q)
       \/ ClearAllCache
       \/ CleanupExpired
       \/ SweepRuns
       \/ Stats
    /\ UNCHANGED <<heap, editors, reg, last, edCall, files, loaded,
                   editor, disk, saveTask, lastSave, shared, lockWriter, lockReaders, tasks>>

SpecCache ==
    CacheInit /\ [][CacheNext]_vars

\* SpecSave: RegistryEditor::load_registry / save_registry next to other
\* users of the same cache.  user.reg of a prefix is absent, present but
\* not writable, or writable.
SaveInit ==
    /\ Idle({"store", "calls", "prefix", "cache", "editor", "conc", "shared", "share"})
    /\ default_ttl = 1
    /\ disk \in [Paths -> [state : {"absent", "readonly", "writable"}, content : {0}]]

SaveNext ==
    /\ \/ \E q \in Paths : SaveBegin(q)
       \/ SaveToFile
       \/ SaveInvalidate
       \/ \E q \in Paths, h \in Handles : LoadRegistry(q, h)
       \/ Tick /\ UNCHANGED <<editor, disk, saveTask, lastSave>>
       \/ \E q \in Paths, h \in Handles :
             CacheRegistry(q, h) /\ UNCHANGED <<editor, disk, saveTask, lastSave>>
       \/ \E q \in Paths : InvalidateCache(q) /\ UNCHANGED <<editor, disk, saveTask, lastSave>>
    /\ UNCHANGED <<heap, editors, reg, last, edCall, files, loaded, shared, lockWriter, lockReaders, tasks>>

SpecSave ==
    SaveInit /\ [][SaveNext]_vars

\* SpecConc: tasks calling the store operations on clones of one handle
ConcInit ==
    /\ Idle({"store", "calls", "prefix", "ttl", "cache", "editor", "disk", "conc", "share"})
    /\ shared \in {RegistryNew, OneKey("Software\\Wine", Sz("v"))}

ConcNext ==
    /\ \/ \E t \in TaskIds, k \in StoreKeys, v \in {Sz("v"), Sz("w")} :
             SpawnOp(t, "set_value", k, "A", v)
       \/ \E t \in TaskIds, k \in StoreKeys : SpawnOp(t, "delete_value", k, "A", NoValue)
       \/ \E t \in TaskIds, k \in StoreKeys : SpawnOp(t, "delete_key", k, "", NoValue)
       \/ \E t \in TaskIds, k \in StoreKeys : SpawnOp(t, "get_value", k, "A", NoValue)
       \/ \E t \in TaskIds : SpawnOp(t, "find_keys", "Software", "", NoValue)
       \/ \E t \in TaskIds, k \in StoreKeys : SpawnOp(t, "get_key_values", k, "", NoValue)
       \/ \E t \in TaskIds, k \in StoreKeys : SpawnOp(t, "key_exists", k, "", NoValue)
       \/ \E t \in TaskIds : SpawnOp(t, "save_to_file", "", "", NoValue)
       \/ \E t \in TaskIds : AcquireWrite(t)
       \/ \E t \in TaskIds : AcquireRead(t)
       \/ \E t \in TaskIds : CloneRegistry(t)
       \/ \E t \in TaskIds : StoreRegistry(t)
       \/ \E t \in TaskIds : ReadRegistry(t)
       \/ \E t \in TaskIds : SerializeFile(t)
       \/ \E t \in TaskIds : ReleaseLock(t)
    /\ UNCHANGED <<heap, editors, reg, last, edCall, files, loaded, cache, default_ttl, now, sweeps, lastGet,
                   lastStats, hist, editor, disk, saveTask, lastSave>>

SpecConc ==
    ConcInit /\ [][ConcNext]_vars

\* SpecEditor: a RegistryEditor and a caller of its composite setters and
\* getters.  The editor comes from RegistryEditor::new, or from with_prefix
\* on a prefix whose file holds a key.
EditorInit ==
    /\ Idle({"calls", "prefix", "ttl", "cache", "editor", "disk", "conc", "shared", "share"})
    /\ reg \in { RegistryNew,
                 RegistryWith(RegistryNew, "Software\\Wine\\Direct3D",
                     KeyWith(KeyWith(KeyNew, ValueNameNamed("VideoMemorySize"), Dword(512)),
                             ValueNameNamed("renderer"), Sz("gl"))),
                 RegistryWith(RegistryNew, "Software\\Wine\\Direct3D",
                     KeyWith(KeyWith(KeyWith(KeyNew,
                             ValueNameNamed("MaxShaderModelVS"), Dword(3)),
                             ValueNameNamed("MaxShaderModelPS"), Dword(2)),
                             ValueNameNamed("MaxShaderModelGS"), Sz("4"))) }

EditorNext ==
    /\ \/ \E settings \in DesktopSettingsInputs : SetDesktopSettings(settings)
       \/ \E settings \in ShaderInputs : SetShaderModelSettings(settings)
       \/ GetShaderModelSettings
       \/ \E settings \in AppSettingsInputs : SetAppSettings("game.exe", settings)
       \/ RemoveAppSettings("game.exe")
       \/ \E f \in { <<"Arial", "v">>, <<"Arial", "w">>, <<"Gothic", "v">>, <<"a:b", "v">> } :
             AddFontReplacement(f[1], f[2])
       \/ \E original \in {"Arial", "a:b"} : RemoveFontReplacement(original)
    /\ UNCHANGED <<heap, editors, files, loaded, cache, default_ttl, now, sweeps, lastGet, lastStats, hist,
                   editor, disk, saveTask, lastSave, shared, lockWriter, lockReaders, tasks>>

SpecEditor ==
    EditorInit /\ [][EditorNext]_vars

\* SpecSettings: a RegistryEditor and a caller of its scalar setters and
\* of set_mac_driver_settings.  The editor comes from RegistryEditor::new,
\* or from with_prefix on a prefix whose files hold two keys.  One of the
\* loaded registries holds value names with ':' and '?'.
SettingsInit ==
    /\ Idle({"calls", "prefix", "ttl", "cache", "editor", "disk", "conc", "shared", "share"})
    /\ reg \in { RegistryNew,
                 RegistryWith(
                     RegistryWith(RegistryNew, "Software\\Wine\\Direct3D",
                         KeyWith(KeyWith(KeyNew, ValueNameNamed("VideoMemorySize"), Dword(512)),
                                 ValueNameNamed("renderer"), Sz("gl"))),
                     "Control Panel\\Desktop",
                     KeyWith(KeyNew, ValueNameNamed("LogPixels"), Dword(120))),
                 RegistryWith(
                     RegistryWith(RegistryNew, "Software\\Classes",
                         KeyWith(KeyWith(KeyWith(KeyNew, ValueNameNamed("a:b"), Sz("v")),
                                 ValueNameNamed("c?d"), Sz("v")),
                                 ValueNameNamed("Content Type"), Sz("v"))),
                     "Control Panel\\Desktop",
                     KeyWith(KeyWith(KeyNew, ValueNameNamed("LogPixels"), Dword(120)),
                             ValueNameNamed("a:b"), Sz("v"))) }

SettingsNext ==
    /\ \/ \E version \in {"win10", "win7", "bogus"} : SetWindowsVersion(version)
       \/ \E driver \in {"pulse", "bogus"} : SetAudioDriver(driver)
       \/ \E size_mb \in {0, 1, MaxVideoMemory, MaxVideoMemory + 1} : SetVideoMemorySize(size_mb)
       \/ \E log_pixels \in {None, Some(MinDpi - 1), Some(MinDpi)} :
             SetDpiSettings([log_pixels |-> log_pixels])
       \/ \E c \in { <<"d3d_renderer", "gl">>, <<"d3d_renderer", "gdi">>,
                     <<"d3d_renderer", "no3d">>, <<"d3d_renderer", "vulkan">>,
                     <<"d3d_renderer", "bogus">>, <<"offscreen_rendering_mode", "fbo">>,
                     <<"offscreen_rendering_mode", "backbuffer">>,
                     <<"offscreen_rendering_mode", "bogus">>,
                     <<"mouse_warp_override", "force">>, <<"mouse_warp_override", "bogus">>,
                     <<"graphics_driver", "x11">>, <<"graphics_driver", "bogus">> } :
             SetScalar(c[1], c[2])
       \/ \E enabled \in BOOLEAN : SetD3DCsmt(enabled)
       \/ ValidateRegistry
       \/ \E allow_vertical_sync \in {None, Some(TRUE), Some(FALSE)},
             retina_mode \in {None, Some(TRUE)},
             windows_float_when_inactive \in {None, Some("NonFullscreen")} :
             SetMacDriverSettings(
                 [allow_vertical_sync |-> allow_vertical_sync,
                  capture_displays_for_fullscreen |-> None,
                  use_precise_scrolling |-> None,
                  retina_mode |-> retina_mode,
                  windows_float_when_inactive |-> windows_float_when_inactive])
    /\ UNCHANGED <<heap, editors, files, loaded, cache, default_ttl, now, sweeps, lastGet, lastStats, hist,
                   editor, disk, saveTask, lastSave, shared, lockWriter, lockReaders, tasks>>

SpecSettings ==
    SettingsInit /\ [][SettingsNext]_vars

\* SpecDrivers: an editor from RegistryEditor::new and a caller of
\* set_x11_driver_settings and set_mac_driver_settings with settings that
\* hold one flag or two
DriversInit ==
    /\ Idle({"store", "calls", "prefix", "ttl", "cache", "editor", "disk", "conc", "shared",
             "share"})

DriversNext ==
    /\ \/ \E f \in 1..Len(X11Fields), b \in BOOLEAN : \E g \in {f, 1} :
             SetX11DriverSettings(
                 [x \in {X11Fields[i].field : i \in 1..Len(X11Fields)} |->
                     IF x \in {X11Fields[f].field, X11Fields[g].field} THEN Some(b) ELSE None])
       \/ \E f \in 1..Len(MacFields), b \in BOOLEAN : \E g \in {f, 1} :
             SetMacDriverSettings(
                 [x \in {MacFields[i].field : i \in 1..Len(MacFields)}
                           \cup {"windows_float_when_inactive"} |->
                     IF x \in {MacFields[f].field, MacFields[g].field} THEN Some(b) ELSE None])
    /\ UNCHANGED <<heap, editors, files, loaded, cache, default_ttl, now, sweeps, lastGet, lastStats, hist,
                   editor, disk, saveTask, lastSave, shared, lockWriter, lockReaders, tasks>>

SpecDrivers ==
    DriversInit /\ [][DriversNext]_vars

\* SpecShare: user.reg of the prefix parses, the other two files are missing
ShareInit ==
    /\ Idle({"store", "calls", "cache", "editor", "disk", "conc", "shared", "share"})
    /\ default_ttl = 1
    /\ loaded = NotLoaded
    /\ \E content \in {RegistryNew, OneKey("Software\\Wine", Sz("v"))} :
          files = [f \in FileNames |->
                      IF f = "user.reg" THEN [state |-> "ok", content |-> content]
                      ELSE [state |-> "missing", content |-> RegistryNew]]

ShareNext ==
    /\ \/ \E e \in Editors : WithPrefixLookup(e)
       \/ \E e \in Editors : WithPrefixLoad(e)
       \/ \E e \in Editors : WithPrefixCache(e)
       \/ \E e \in Editors, v \in {Sz("v"), Sz("w")} : EditorSetValue(e, v)
       \/ \E e \in Editors : EditorSaveRegistry(e)
       \/ Tick /\ UNCHANGED <<heap, editors, files>>
    /\ UNCHANGED <<reg, last, edCall, loaded, default_ttl, sweeps, lastGet, lastStats, hist,
                   editor, disk, saveTask, lastSave, shared, lockWriter, lockReaders, tasks>>

SpecShare ==
    ShareInit /\ [][ShareNext]_vars

----------------------------------------------------------------------------
\* C2: set_value(k, n, v) changes only the slot (k, n): every other value
\* of key k and every value of every other key reads back as before the call.
C2_SetValueFrame ==
    [][ last'.op = "set_value" =>
          \A k \in StoreKeys, n \in StoreNames :
              (<<k, n>> /= <<last'.key, last'.name>>)
                  => get_value(reg', k, n) = get_value(reg, k, n) ]_vars

\* C7: set_value(k, "", v) writes the default slot read by
\* get_value(k, "(default)"), set_value(k, "SomeName", w) is read by
\* get_value(k, "SomeName"), and neither write overwrites the other.
C7_DefaultAndNamedIndependent ==
    [][ /\ (last'.op = "set_value" /\ last'.name = "")
            => /\ get_value(reg', last'.key, "(default)") = Some(last'.value)
               /\ get_value(reg', last'.key, "SomeName") = get_value(reg, last'.key, "SomeName")
        /\ (last'.op = "set_value" /\ last'.name = "SomeName")
            => /\ get_value(reg', last'.key, "SomeName") = Some(last'.value)
               /\ get_value(reg', last'.key, "(default)") = get_value(reg, last'.key, "(default)") ]_vars

----------------------------------------------------------------------------
Parsed(f) ==
    files[f].state = "ok"

\* C1: load_from_prefix never produces a key-level union: when user.reg
\* parses the result is exactly user.reg's registry, no key of the result
\* occurs only in system.reg or userdef.reg, and every successful result is
\* the whole content of one of the files that parsed.
C1_WholesalePrecedence ==
    loaded.status = "Ok" =>
        /\ Parsed("user.reg") =>
              /\ loaded.registry = files["user.reg"].content
              /\ \A k \in DOMAIN loaded.registry : k \in DOMAIN files["user.reg"].content
        /\ \E f \in FileNames : Parsed(f) /\ loaded.registry = files[f].content

\* C1 witness: system.reg holds key A, userdef.reg key B, user.reg key C,
\* and the loaded registry holds only C
C1_Witness ==
    /\ loaded.status = "Ok"
    /\ Parsed("system.reg") /\ DOMAIN files["system.reg"].content = {"Software\\A"}
    /\ Parsed("userdef.reg") /\ DOMAIN files["userdef.reg"].content = {"Software\\B"}
    /\ Parsed("user.reg") /\ DOMAIN files["user.reg"].content = {"Software\\C"}
    /\ DOMAIN loaded.registry = {"Software\\C"}

\* C8: load_from_prefix fails with the "no valid registry files" error
\* exactly when none of the three files was loaded.
C8_FailsIffNothingLoaded ==
    loaded.status /= "none" =>
        /\ (loaded.status = "Err") <=> (\A f \in FileNames : ~Parsed(f))
        /\ loaded.status = "Err"
              => loaded.error = "No valid registry files found in Wine prefix"

\* C8 witness: one file parses, one is missing and one is unparseable, and
\* the call succeeds
C8_Witness ==
    /\ loaded.status = "Ok"
    /\ files["system.reg"].state = "corrupt"
    /\ files["user.reg"].state = "missing"
    /\ files["userdef.reg"].state = "ok"

\* C9 (as claimed): user.reg and userdef.reg absent gives system.reg's
\* content; only system.reg absent (user.reg and userdef.reg present) gives
\* userdef.reg's content.
C9_FallbackAsClaimed ==
    loaded.status /= "none" =>
        /\ ( /\ files["user.reg"].state = "missing"
              /\ files["userdef.reg"].state = "missing"
              /\ Parsed("system.reg") )
              => (loaded.status = "Ok" /\ loaded.registry = files["system.reg"].content)
        /\ ( /\ files["system.reg"].state = "missing"
              /\ files["user.reg"].state /= "missing"
              /\ Parsed("userdef.reg") )
              => (loaded.status = "Ok" /\ loaded.registry = files["userdef.reg"].content)

\* C9 (amended): user.reg and userdef.reg absent gives system.reg's content;
\* system.reg absent and userdef.reg parsed gives userdef.reg's content when
\* user.reg did not load, and user.reg's content when it did.
C9_Fallback ==
    loaded.status /= "none" =>
        /\ ( /\ files["user.reg"].state = "missing"
              /\ files["userdef.reg"].state = "missing"
              /\ Parsed("system.reg") )
              => (loaded.status = "Ok" /\ loaded.registry = files["system.reg"].content)
        /\ ( /\ files["system.reg"].state = "missing"
              /\ Parsed("userdef.reg") )
              => /\ loaded.status = "Ok"
                 /\ loaded.registry = IF Parsed("user.reg")
                                       THEN files["user.reg"].content
                                       ELSE files["userdef.reg"].content

\* C9 witness: system.reg missing, user.reg not loaded, userdef.reg parsed
\* with a key, and the loaded registry is userdef.reg's
C9_Witness ==
    /\ loaded.status = "Ok"
    /\ files["system.reg"].state = "missing"
    /\ ~Parsed("user.reg")
    /\ Parsed("userdef.reg") /\ files["userdef.reg"].content /= RegistryNew
    /\ loaded.registry = files["userdef.reg"].content

----------------------------------------------------------------------------
\* C4: cache freshness.  A get_cached_registry(p) returns None when p was
\* never cached or its entry was invalidated; when the last call on p's
\* entry was cache_registry(p, r) it returns Some(r) while
\* now - created_at <= ttl and None once now - created_at > ttl.
C4_CacheFreshness ==
    [][ lastGet'.seq /= lastGet.seq =>
          LET q == lastGet'.path
              ev == hist[q]
          IN  /\ ev.kind \in {"never", "invalidated"} => ~lastGet'.res.some
              /\ ev.kind = "cached" =>
                    /\ (now - ev.at <= default_ttl) => lastGet'.res.some
                    /\ (now - ev.at > default_ttl) => ~lastGet'.res.some ]_vars

\* C4 witness: an entry cached earlier and never removed has outlived its
\* ttl and the get just made returned None
C4_Witness ==
    /\ hist[lastGet.path].kind = "cached"
    /\ now - hist[lastGet.path].at > default_ttl
    /\ lastGet.path \in DOMAIN cache
    /\ lastGet.seq = 1
    /\ ~lastGet.res.some

\* C6: once save_registry(p) has returned Ok, get_cached_registry(p) returns
\* None until the next cache_registry(p, _); a save_registry that returns an
\* error leaves the cache as it was.
C6_SaveInvalidates ==
    [][ /\ \A q \in Paths :
              hist'[q].kind = "saved" => ~get_cached_registry(cache', q, now').some
        /\ (lastSave'.seq /= lastSave.seq /\ lastSave'.status = "Ok")
              => /\ hist'[lastSave'.path].kind = "saved"
                 /\ lastSave'.path \notin DOMAIN cache'
        /\ (lastSave'.seq /= lastSave.seq /\ lastSave'.status /= "Ok")
              => cache' = cache ]_vars

\* C6 witness: a save returned Ok for a path that had a live cache entry,
\* the file holds the editor's registry and the entry is gone
C6_Witness ==
    /\ lastSave.status = "Ok" /\ lastSave.had
    /\ hist[lastSave.path].kind = "saved"
    /\ disk[lastSave.path].content = editor.registry
    /\ lastSave.path \notin DOMAIN cache

----------------------------------------------------------------------------
InCriticalSection(t) ==
    tasks[t].pc \in {"locked", "cloned", "finished"}

\* C5: the registry lock is held by nobody, by exactly one writer, or by
\* readers and no writer; a writer does its whole clone-modify-store while
\* it is the exclusive holder; a finished set_value on a key that no other
\* writer has touched since is in the registry, whatever the interleaving.
C5_LockDiscipline ==
    /\ lockWriter /= "none" => lockReaders = {}
    /\ \A t \in TaskIds :
          /\ (InCriticalSection(t) /\ tasks[t].op \in WriteOps)
                => (lockWriter = t /\ lockReaders = {})
          /\ (InCriticalSection(t) /\ tasks[t].op \in ReadOps)
                => (t \in lockReaders /\ lockWriter = "none")
          /\ tasks[t].pc = "cloned" => tasks[t].local = shared
    /\ \A t \in TaskIds :
          ( /\ tasks[t].pc = "done" /\ tasks[t].op = "set_value"
            /\ \A u \in TaskIds \ {t} :
                  (tasks[u].op \in WriteOps /\ tasks[u].key = tasks[t].key)
                      => tasks[u].pc \in {"idle", "spawned"} )
              => get_value(shared, tasks[t].key, tasks[t].name) = Some(tasks[t].value)

\* C5 witness: two set_value calls on different keys ran while a third
\* writer was in flight, both are done and both values are in the registry
C5_Witness ==
    /\ tasks["t1"].pc = "done" /\ tasks["t1"].op = "set_value"
    /\ tasks["t2"].pc = "done" /\ tasks["t2"].op = "set_value"
    /\ tasks["t1"].key /= tasks["t2"].key
    /\ tasks["t2"].local /= RegistryNew
    /\ tasks["t3"].pc = "locked" /\ tasks["t3"].op = "get_value"
    /\ get_value(shared, tasks["t1"].key, "A") = Some(tasks["t1"].value)
    /\ get_value(shared, tasks["t2"].key, "A") = Some(tasks["t2"].value)

----------------------------------------------------------------------------
\* C3: a setter call that returns a Validation error has written nothing:
\* the registry after the failed call equals the registry before it.
C3_ValidationErrorWritesNothing ==
    [][ edCall'.status = "ValidationError" => reg' = reg ]_vars

----------------------------------------------------------------------------
\* C11: all clones of a WineRegistry handle share one registry: after a
\* write through one clone, a read through every other clone (editors and
\* the handle held by the cache entry) returns the written value, so the
\* last writer wins, and all clones read the same registry at all times.
C11_ClonesShareOneRegistry ==
    [][ /\ \A x, y \in Holders(editors', cache') :
              x.origin = y.origin => heap'[x.arc] = heap'[y.arc]
        /\ \A e \in Editors :
              editors'[e].writes /= editors[e].writes =>
                  \A x \in Holders(editors', cache') :
                      x.origin = editors[e].registry.origin =>
                          get_value(heap'[x.arc], "Software\\Wine", "A")
                              = Some(editors'[e].value) ]_vars

\* C11 witness: e1 loaded and cached the registry, e2 got it from the cache,
\* both wrote, and e1 and the cache entry read the value e2 wrote last
C11_Witness ==
    /\ editors["e1"].pc = "ready" /\ editors["e2"].pc = "ready"
    /\ editors["e1"].registry.origin = editors["e2"].registry.origin
    /\ editors["e1"].writes = 1 /\ editors["e2"].writes = 1
    /\ editors["e1"].value /= editors["e2"].value
    /\ PrefixPath \in DOMAIN cache
    /\ get_value(heap[editors["e1"].registry.arc], "Software\\Wine", "A")
           = Some(editors["e2"].value)
    /\ get_value(heap[cache[PrefixPath].registry.arc], "Software\\Wine", "A")
           = Some(editors["e2"].value)

----------------------------------------------------------------------------
\* C12: save_to_file does not hold the registry lock while its file I/O is
\* in progress, so a set_value on a clone that is waiting for the exclusive
\* lock can take it while the file is being written.
C12_NoLockDuringFileIO ==
    \A t \in TaskIds :
        (tasks[t].op = "save_to_file" /\ tasks[t].pc = "writing")
            => /\ t \notin lockReaders
               /\ \A u \in TaskIds :
                     (tasks[u].op = "set_value" /\ tasks[u].pc = "spawned")
                         => (lockWriter = "none" /\ lockReaders \subseteq {t})

----------------------------------------------------------------------------
\* C13: set_video_memory_size(s) returns a Validation error exactly when
\* s = 0 or s > 16384, and then the stored VideoMemorySize (present or
\* absent) is what it was; for 1 <= s <= 16384 it returns Ok and
\* get_video_memory_size returns Some(s).
C13_VideoMemoryRange ==
    [][ edCall'.op = "set_video_memory_size" =>
            LET s == edCall'.arg
            IN  /\ (edCall'.status = "ValidationError") <=> (s = 0 \/ s > 16384)
                /\ edCall'.status = "ValidationError" =>
                       get_value(reg', "Software\\Wine\\Direct3D", "VideoMemorySize")
                           = get_value(reg, "Software\\Wine\\Direct3D", "VideoMemorySize")
                /\ (1 <= s /\ s <= 16384) =>
                       /\ edCall'.status = "Ok"
                       /\ get_video_memory_size(reg') = Some(s) ]_vars

C13_Witness ==
    /\ edCall.op = "set_video_memory_size"
    /\ edCall.arg = 16385
    /\ edCall.status = "ValidationError"
    /\ get_video_memory_size(reg) = Some(512)

----------------------------------------------------------------------------
\* C14: set_dpi_settings with log_pixels = Some(d) returns a Validation
\* error exactly when d < 96, leaving the registry unchanged; for d >= 96 it
\* returns Ok and get_dpi_settings returns
\* Some(DpiSettings { log_pixels: Some(d) }).
C14_DpiRange ==
    [][ (edCall'.op = "set_dpi_settings" /\ edCall'.arg.log_pixels.some) =>
            LET d == edCall'.arg.log_pixels.v
            IN  /\ (edCall'.status = "ValidationError") <=> (d < 96)
                /\ edCall'.status = "ValidationError" => reg' = reg
                /\ d >= 96 =>
                       /\ edCall'.status = "Ok"
                       /\ get_dpi_settings(reg') = Some([log_pixels |-> Some(d)]) ]_vars

----------------------------------------------------------------------------
\* C15: set_windows_version(v) called a second time in a row with the same
\* valid v leaves the registry as the first call left it:
\* get_windows_version returns Some(v), and neither the number of keys nor
\* the number of values of Software\Wine grows.
C15_SetWindowsVersionIdempotent ==
    [][ (edCall'.op = "set_windows_version" /\ edCall'.nth = 2 /\ edCall'.status = "Ok") =>
            /\ reg' = reg
            /\ get_string_value(reg', "Software\\Wine", "Version") = Some(edCall'.arg)
            /\ Cardinality(DOMAIN reg') = Cardinality(DOMAIN reg)
            /\ Cardinality(DOMAIN reg'["Software\\Wine"].values)
                   = Cardinality(DOMAIN reg["Software\\Wine"].values) ]_vars

C15_Witness ==
    /\ edCall.op = "set_windows_version"
    /\ edCall.nth = 2
    /\ edCall.status = "Ok"
    /\ edCall.arg = "win10"
    /\ get_string_value(reg, "Software\\Wine", "Version") = Some("win10")

----------------------------------------------------------------------------
\* C16: get_shader_model_settings returns None exactly when none of the six
\* MaxShaderModel{VS,PS,GS,HS,DS,CS} values is stored as a DWORD under
\* Software\Wine\Direct3D; otherwise it returns Some whose fields are
\* Some(value) for the stored ones and None for the others.
C16_ShaderModelNoneIffAllAbsent ==
    edCall.op = "get_shader_model_settings" =>
        LET values == IF "Software\\Wine\\Direct3D" \in DOMAIN reg
                      THEN reg["Software\\Wine\\Direct3D"].values ELSE EmptyMap
            stored(f) == /\ ValueNameNamed(f.name) \in DOMAIN values
                         /\ values[ValueNameNamed(f.name)].type = "Dword"
            all == {ShaderFields[i] : i \in 1..Len(ShaderFields)}
        IN  /\ (edCall.ret = None) <=> (\A f \in all : ~stored(f))
            /\ (\E f \in all : stored(f)) =>
                   /\ edCall.ret.some
                   /\ \A f \in all :
                         edCall.ret.v[f.field] =
                             IF stored(f) THEN Some(values[ValueNameNamed(f.name)].d) ELSE None

C16_Witness ==
    /\ edCall.op = "get_shader_model_settings"
    /\ edCall.ret.some
    /\ edCall.ret.v.max_shader_model_ps = Some(3)
    /\ \A f \in DOMAIN edCall.ret.v \ {"max_shader_model_ps"} : edCall.ret.v[f] = None

----------------------------------------------------------------------------
\* C17: on an editor with an empty registry, after
\* set_mac_driver_settings(s) with at least one field of s set,
\* get_mac_driver_settings returns Some(t) where every field of t is the
\* field of s: the same value where s has one, None where s has None.
C17_MacDriverRoundTrip ==
    [][ (/\ edCall'.op = "set_mac_driver_settings"
         /\ reg = RegistryNew
         /\ \E f \in DOMAIN edCall'.arg : edCall'.arg[f].some) =>
            LET t == get_mac_driver_settings(reg')
            IN  /\ edCall'.status = "Ok"
                /\ t.some
                /\ \A f \in DOMAIN edCall'.arg : t.v[f] = edCall'.arg[f] ]_vars

----------------------------------------------------------------------------
\* C18: get_font_replacements follows the add and remove calls: an add of
\* (original, replacement) leaves the entries of the other originals and
\* exactly one entry for original, with that replacement; a remove of
\* original leaves exactly the entries of the other originals.
C18_FontReplacementsFollowCalls ==
    [][ /\ (edCall'.op = "add_font_replacement" /\ edCall'.status = "Ok") =>
               get_font_replacements(reg')
                   = {e \in get_font_replacements(reg) : e.original /= edCall'.arg.original}
                         \cup {edCall'.arg}
        /\ (edCall'.op = "remove_font_replacement" /\ edCall'.status = "Ok") =>
               get_font_replacements(reg')
                   = {e \in get_font_replacements(reg) : e.original /= edCall'.arg} ]_vars

----------------------------------------------------------------------------
\* C19 as claimed: for every string that set_windows_version,
\* set_d3d_renderer, set_offscreen_rendering_mode or set_mouse_warp_override
\* accepts, the matching getter called right after returns Some of the very
\* string that was passed; set_d3d_csmt(b) is read back as Some(1) for true
\* and Some(0) for false.
C19_ReadBackAsClaimed ==
    [][ /\ (edCall'.op = "set_windows_version" /\ edCall'.status = "Ok") =>
               get_string_value(reg', "Software\\Wine", "Version") = Some(edCall'.arg)
        /\ \A setting \in {"d3d_renderer", "offscreen_rendering_mode", "mouse_warp_override"} :
               (edCall'.op = "set_" \o setting /\ edCall'.status = "Ok") =>
                   get_scalar(reg', setting) = Some(edCall'.arg)
        /\ edCall'.op = "set_d3d_csmt" =>
               get_dword_value(reg', "Software\\Wine\\Direct3D", "csmt")
                   = Some(IF edCall'.arg THEN 1 ELSE 0) ]_vars

\* C19 as amended: the getter returns the very string that was passed,
\* except that set_d3d_renderer accepts "no3d" and get_d3d_renderer then
\* returns Some("gdi"); this covers every string the four from_string
\* functions accept.  set_d3d_csmt(b) is read back as Some(1) for true and
\* Some(0) for false.
C19_ReadBack ==
    [][ /\ (edCall'.op = "set_windows_version" /\ edCall'.status = "Ok") =>
               get_string_value(reg', "Software\\Wine", "Version") = Some(edCall'.arg)
        /\ \A setting \in {"d3d_renderer", "offscreen_rendering_mode", "mouse_warp_override"} :
               (edCall'.op = "set_" \o setting /\ edCall'.status = "Ok") =>
                   get_scalar(reg', setting) =
                       Some(IF setting = "d3d_renderer" /\ edCall'.arg = "no3d"
                            THEN "gdi" ELSE edCall'.arg)
        /\ edCall'.op = "set_d3d_csmt" =>
               get_dword_value(reg', "Software\\Wine\\Direct3D", "csmt")
                   = Some(IF edCall'.arg THEN 1 ELSE 0)
        /\ \A enum \in {WindowsVersion, D3DRenderer, OffscreenRenderingMode, MouseWarpOverride} :
               \A e \in enum.from_string :
                   EnumToString(enum.to_string, EnumFromString(enum.from_string, e.str))
                       = IF e.str = "no3d" THEN "gdi" ELSE e.str ]_vars

C19_Witness ==
    /\ edCall.op = "set_d3d_renderer"
    /\ edCall.arg = "no3d"
    /\ edCall.status = "Ok"
    /\ get_scalar(reg, "d3d_renderer") = Some("gdi")

----------------------------------------------------------------------------
\* C20: set_audio_driver(d) and set_graphics_driver(d) return Ok for a
\* driver string their enum recognises, and get_audio_driver /
\* get_graphics_driver then return Some(d); for an unrecognised string they
\* return a Validation error.
C20_DriverSettersAcceptRecognised ==
    [][ /\ edCall'.op = "set_audio_driver" =>
               IF EnumFromString(AudioDriver.from_string, edCall'.arg) /= "None"
               THEN /\ edCall'.status = "Ok"
                    /\ get_string_value(reg', "Software\\Wine\\Drivers\\Audio", "")
                           = Some(edCall'.arg)
               ELSE edCall'.status = "ValidationError"
        /\ edCall'.op = "set_graphics_driver" =>
               IF EnumFromString(GraphicsDriver.from_string, edCall'.arg) /= "None"
               THEN /\ edCall'.status = "Ok"
                    /\ get_scalar(reg', "graphics_driver") = Some(edCall'.arg)
               ELSE edCall'.status = "ValidationError" ]_vars

----------------------------------------------------------------------------
\* C21: validate_registry reports every violation: one error for each key
\* whose path breaks the key-path rule and one error for each value, under
\* any key, whose name breaks the value-name rule, and nothing else; so the
\* list is empty exactly when there is no such key and no such value.
C21_ValidateRegistryReportsAll ==
    edCall.op = "validate_registry" =>
        edCall.ret =
            { [key_path |-> k, value_name |-> None] :
                  k \in {k \in DOMAIN reg : validate_key_path(k) /= "Ok"} }
            \cup UNION { { [key_path |-> k, value_name |-> Some(n)] :
                              n \in { ValNameStr(vn) : vn \in
                                        { vn \in DOMAIN reg[k].values :
                                              validate_value_name(ValNameStr(vn)) /= "Ok" } } } :
                         k \in DOMAIN reg }

----------------------------------------------------------------------------
\* C22: lazy expiry.  get_cached_registry never changes the cache: a get
\* that misses on a stored entry leaves it stored, where stats counts it as
\* expired.  An entry whose age exceeds its ttl is removed or replaced only
\* by invalidate_cache or cache_registry for its path, clear_all_cache or
\* the sweep of cleanup_expired.
C22_LazyExpiry ==
    [][ /\ lastGet'.seq /= lastGet.seq =>
              /\ cache' = cache
              /\ (lastGet'.path \in DOMAIN cache /\ ~lastGet'.res.some) =>
                     /\ lastGet'.path \in DOMAIN cache'
                     /\ stats(cache', now').expired_entries >= 1
        /\ \A q \in DOMAIN cache :
              (/\ now - cache[q].created_at > cache[q].ttl
               /\ (q \notin DOMAIN cache' \/ cache'[q] /= cache[q])) =>
                  \/ InvalidateCache(q)
                  \/ ClearAllCache
                  \/ SweepRuns
                  \/ \E h \in Handles : CacheRegistry(q, h) ]_vars

C22_Witness ==
    /\ lastGet.path \in DOMAIN cache
    /\ ~lastGet.res.some
    /\ now - cache[lastGet.path].created_at > cache[lastGet.path].ttl
    /\ lastStats.total_entries = 2
    /\ lastStats.expired_entries = 1

----------------------------------------------------------------------------
\* C23: the sweep started by cleanup_expired removes exactly the entries
\* whose age exceeds their ttl: once it has run no entry with
\* now - created_at > ttl remains, and every entry that get_cached_registry
\* would still return is still in the cache.
C23_SweepRemovesExactlyExpired ==
    [][ sweeps' < sweeps =>
            /\ \A q \in DOMAIN cache' : ~(now' - cache'[q].created_at > cache'[q].ttl)
            /\ \A q \in DOMAIN cache :
                  get_cached_registry(cache, q, now).some =>
                      (q \in DOMAIN cache' /\ cache'[q] = cache[q]) ]_vars

----------------------------------------------------------------------------
\* C24: get_desktop_settings returns None when neither Desktop nor
\* ShowSystray is stored under Software\Wine\Explorer and no value is
\* stored under Software\Wine\Explorer\Desktops; and when it returns Some,
\* every field value it carries is stored in the registry.
C24_DesktopSettingsCompositeRule ==
    LET values(k) == IF k \in DOMAIN reg THEN get_key_values(reg, k) ELSE EmptyMap
        explorer == values("Software\\Wine\\Explorer")
        desktops == values("Software\\Wine\\Explorer\\Desktops")
        got == get_desktop_settings(reg)
    IN  /\ ("Desktop" \notin DOMAIN explorer /\ "ShowSystray" \notin DOMAIN explorer
               /\ DOMAIN desktops = {}) => got = None
        /\ got.some =>
              /\ got.v.desktop.some =>
                     ("Desktop" \in DOMAIN explorer /\ explorer["Desktop"].s = got.v.desktop.v)
              /\ "ShowSystray" \in DOMAIN explorer
              /\ got.v.show_systray = (explorer["ShowSystray"].d /= 0)
              /\ DOMAIN got.v.desktops \subseteq DOMAIN desktops

----------------------------------------------------------------------------
\* C25: per-field boolean codec.  Writing to an empty registry a settings
\* struct in which only the flag f is set, to Some(b), stores the encoding
\* of that field (X11: "Y"/"N"; macOS: "y"/"n", RetinaMode "Y"/"n"), and the
\* matching getter returns f = Some(b) with every other flag None; for
\* every X11 driver flag, every macOS driver flag and both booleans.
C25_FlagCodecRoundTrip ==
    [][ \A driver \in { [op |-> "set_x11_driver_settings", key |-> "Software\\Wine\\X11 Driver",
                         fields |-> X11Fields],
                        [op |-> "set_mac_driver_settings", key |-> "Software\\Wine\\Mac Driver",
                         fields |-> MacFields] } :
          (edCall'.op = driver.op /\ reg = RegistryNew) =>
             \A i \in 1..Len(driver.fields) :
                LET f == driver.fields[i]
                    s == edCall'.arg
                    got == IF driver.op = "set_x11_driver_settings"
                           THEN get_x11_driver_settings(reg')
                           ELSE get_mac_driver_settings(reg')
                    yes == IF driver.op = "set_x11_driver_settings" \/ f.name = "RetinaMode"
                           THEN "Y" ELSE "y"
                    no == IF driver.op = "set_x11_driver_settings" THEN "N" ELSE "n"
                IN  (s[f.field].some /\ \A x \in DOMAIN s \ {f.field} : ~s[x].some) =>
                       /\ edCall'.status = "Ok"
                       /\ get_value(reg', driver.key, f.name)
                              = Some(Sz(IF s[f.field].v THEN yes ELSE no))
                       /\ got.some
                       /\ got.v[f.field] = s[f.field]
                       /\ \A x \in DOMAIN got.v \ {f.field} : got.v[x] = None ]_vars

C25_Witness ==
    /\ edCall.op = "set_x11_driver_settings"
    /\ edCall.arg.grab_fullscreen = Some(FALSE)
    /\ \A x \in DOMAIN edCall.arg \ {"grab_fullscreen"} : edCall.arg[x] = None
    /\ get_value(reg, "Software\\Wine\\X11 Driver", "GrabFullscreen") = Some(Sz("N"))
    /\ get_x11_driver_settings(reg).v.grab_fullscreen = Some(FALSE)
    /\ "Software\\Wine\\Mac Driver" \notin DOMAIN reg

----------------------------------------------------------------------------
\* C26: the file written by save_to_file is an atomic snapshot: when
\* serialize_file has written its last key, the file equals the registry
\* as it is at that point, with setters running on clones of the handle;
\* no write was applied between the keys of the file.
C26_SaveIsSnapshot ==
    \A t \in TaskIds :
        (tasks[t].op = "save_to_file" /\ tasks[t].pc = "finished") => tasks[t].local = shared

C26_Witness ==
    /\ tasks["t1"].op = "save_to_file" /\ tasks["t1"].pc = "finished"
    /\ tasks["t2"].op = "set_value" /\ tasks["t2"].pc = "spawned"
    /\ tasks["t3"].op = "set_value" /\ tasks["t3"].pc = "done"
    /\ tasks["t2"].key = "Software\\Wine" /\ tasks["t3"].key = "Software\\Wine\\Direct3D"
    /\ tasks["t1"].local = shared
    /\ DOMAIN shared = StoreKeys

----------------------------------------------------------------------------
\* C27: two with_prefix calls that run concurrently with the same cache and
\* the same prefix path end with one registry between them.  When a
\* with_prefix call that missed stores its registry while the cache holds a
\* live entry, that entry was stored during the call (an entry that was there
\* at the lookup and expired stays expired), so the calls that hold the
\* entry's registry overlapped with this one: after the step the returning
\* editor, those editors and the cache entry hold the same registry, so that
\* a value set through one of them is read through the others.
C27_ConcurrentWithPrefixShare ==
    [][\A e \in Editors :
          (/\ editors[e].pc = "loaded" /\ editors'[e].pc = "ready"
           /\ get_cached_registry(cache, PrefixPath, now).some)
          => \A e2 \in Editors \ {e} :
                (/\ editors[e2].pc = "ready"
                 /\ editors[e2].registry.arc = cache[PrefixPath].registry.arc)
                => /\ editors'[e].registry.arc = editors'[e2].registry.arc
                   /\ cache'[PrefixPath].registry.arc = editors'[e2].registry.arc]_vars

----------------------------------------------------------------------------
\* C28: an editor whose save_registry has returned Ok and every editor that
\* with_prefix hands out afterwards for the same cache and prefix hold one
\* registry, so that a value written through the saver after the save is read
\* through the later editors.
C28_SaverSharesWithLaterEditors ==
    \A e1 \in Editors, e2 \in Editors :
        (/\ editors[e1].saved
         /\ editors[e2].pc = "ready"
         /\ e1 \in editors[e2].after)
        => editors[e2].registry.arc = editors[e1].registry.arc

----------------------------------------------------------------------------
\* C29: after remove_app_settings(app) has returned Ok, get_app_settings(app)
\* returns None, whatever had been stored for app before.
C29_RemovedAppHasNoSettings ==
    [][(edCall'.op = "remove_app_settings" /\ edCall'.status = "Ok")
          => get_app_settings(reg', edCall'.arg) = None]_vars

----------------------------------------------------------------------------
\* C30: after set_app_settings(app, s) has returned Ok on a registry with no
\* key of app, s holding a DLL override, a renderer or an offscreen mode,
\* get_app_settings(app) returns Some(t) with the DLL overrides, the renderer
\* and the offscreen mode of s.
C30_AppSettingsRoundTrip ==
    [][(/\ edCall'.op = "set_app_settings" /\ edCall'.status = "Ok"
        /\ \A key_path \in DOMAIN reg :
               ~StartsWith(key_path, PathJoin("Software\\Wine\\AppDefaults", edCall'.arg.app_name))
        /\ \/ edCall'.arg.settings.dll_overrides /= <<>>
           \/ edCall'.arg.settings.d3d_renderer /= "None"
           \/ edCall'.arg.settings.offscreen_rendering_mode /= "None")
          => LET s == edCall'.arg.settings
                 t == get_app_settings(reg', edCall'.arg.app_name)
             IN  /\ t.some
                 /\ t.v.dll_overrides = {s.dll_overrides[i] : i \in 1..Len(s.dll_overrides)}
                 /\ t.v.d3d_renderer = s.d3d_renderer
                 /\ t.v.offscreen_rendering_mode = s.offscreen_rendering_mode]_vars
====
